---------------------------- MODULE Spec2Model ----------------------------
(***************************************************************************)
(* A model of the self-extracting container format of convex-bundler       *)
(* (pkg/selfhost): Create, DetectSelfHostModeFromFile,                      *)
(* ReadHeaderFromExecutable, Verify, Extract and the tar/gzip payload       *)
(* transcoder, over a small file system of byte strings.                    *)
(*                                                                         *)
(* Byte strings.  A byte string ("blob") is a sequence of cells.  A cell    *)
(* c < 256 is the byte c.  A cell c >= 256 stands for c - 256 consecutive   *)
(* bytes PadByte; it exists only so that a string of more than 1 MiB (the   *)
(* header ceiling of ReadHeader) can be written down.  Blobs are kept       *)
(* canonical: a run cell has length >= 2 and no two adjacent cells are      *)
(* both PadByte-or-run, so equal byte strings are equal values.             *)
(***************************************************************************)
EXTENDS Integers, Sequences, FiniteSets, TLC

VARIABLES fs, clock, last, prev, made, tampered

vars == <<fs, clock, last, prev, made, tampered>>

\* LET x == v IN F(x)
Let(v, F(_)) == F(v)

-----------------------------------------------------------------------------
(* Bytes and blobs *)

\* the byte that a run cell repeats
PadByte == 120

W(c) == IF c < 256 THEN 1 ELSE c - 256

IsPad(c) == c = PadByte \/ c >= 256

Run(n) == IF n = 0 THEN <<>> ELSE IF n = 1 THEN <<PadByte>> ELSE <<256 + n>>

RECURSIVE ExtraOf(_, _)
ExtraOf(b, S) ==
  IF S = {} THEN 0
  ELSE LET i == CHOOSE i \in S : TRUE IN (b[i] - 257) + ExtraOf(b, S \ {i})

\* Byte offset (from 0) of cell i of b; for i = Len(b) + 1, the length in bytes.
CellStart(b, i) == (i - 1) + ExtraOf(b, {k \in 1..(i - 1) : b[k] >= 256})

BLen(b) == CellStart(b, Len(b) + 1)

RECURSIVE CellAtRuns(_, _, _, _)
\* CellAt, given the run cells R that are still ahead and the bytes e by which
\* the runs already passed exceed their cells
CellAtRuns(b, off, R, e) ==
  IF R = {} THEN off - e + 1
  ELSE LET k == CHOOSE k \in R : \A j \in R : k <= j
           start == (k - 1) + e
       IN IF off < start THEN off - e + 1
          ELSE IF off < start + W(b[k]) THEN k
          ELSE CellAtRuns(b, off, R \ {k}, e + W(b[k]) - 1)

\* Index of the cell that holds the byte at offset off (0 <= off < BLen(b)).
CellAt(b, off) == CellAtRuns(b, off, {k \in 1..Len(b) : b[k] >= 256}, 0)

ByteAt(b, off) == Let(b[CellAt(b, off)], LAMBDA c : IF c >= 256 THEN PadByte ELSE c)

Cat(a, b) ==
  IF a = <<>> THEN b
  ELSE IF b = <<>> THEN a
  ELSE IF IsPad(a[Len(a)]) /\ IsPad(b[1])
       THEN SubSeq(a, 1, Len(a) - 1) \o Run(W(a[Len(a)]) + W(b[1])) \o Tail(b)
       ELSE a \o b

RECURSIVE CatAll(_)
CatAll(parts) == IF parts = <<>> THEN <<>> ELSE Cat(Head(parts), CatAll(Tail(parts)))

\* The n bytes of b from offset off (off + n <= BLen(b)).
Sub(b, off, n) ==
  IF n = 0 THEN <<>>
  ELSE Let(CellAt(b, off), LAMBDA i : Let(CellAt(b, off + n - 1), LAMBDA j :
         IF i = j
         THEN (IF b[i] >= 256 THEN Run(n) ELSE <<b[i]>>)
         ELSE (IF b[i] >= 256 THEN Run(CellStart(b, i) + W(b[i]) - off) ELSE <<b[i]>>)
              \o SubSeq(b, i + 1, j - 1)
              \o (IF b[j] >= 256 THEN Run(off + n - CellStart(b, j)) ELSE <<b[j]>>)))

\* b as one byte per element (short blobs only: markers, footers, names).
Expand(b) == [k \in 1..BLen(b) |-> ByteAt(b, k - 1)]

\* b with the byte at offset off replaced by v.
SetByte(b, off, v) ==
  CatAll(<<Sub(b, 0, off), <<v>>, Sub(b, off + 1, BLen(b) - off - 1)>>)

HasPrefix(s, p) == Len(p) <= Len(s) /\ SubSeq(s, 1, Len(p)) = p


-----------------------------------------------------------------------------
(* Integers on the wire.  TLC's integers are 32-bit, so a decoded value     *)
(* that does not fit is reported as IntCap (larger than any file of the     *)
(* model) or, for a set sign bit of an int64, as -1; the code only compares *)
(* such values with sizes.                                                  *)

IntCap == 1073741824 + 1073741823

\* binary.BigEndian.PutUint32
BigEndianPutUint32(n) ==
  <<(n \div 16777216) % 256, (n \div 65536) % 256, (n \div 256) % 256, n % 256>>

\* binary.BigEndian.Uint32 of 4 bytes
BigEndianUint32(q) ==
  IF q[1] >= 128 THEN IntCap
  ELSE q[1] * 16777216 + q[2] * 65536 + q[3] * 256 + q[4]

\* binary.LittleEndian.PutUint64 of a non-negative int64
LittleEndianPutUint64(n) ==
  <<n % 256, (n \div 256) % 256, (n \div 65536) % 256, (n \div 16777216) % 256,
    0, 0, 0, 0>>

\* a decoder that reads only the low 4 bytes of the 8
LowWordOnly(q) == q[1] + q[2] * 256 + q[3] * 65536 + (q[4] % 128) * 16777216

\* int64(binary.LittleEndian.Uint64(q)) of 8 bytes
LittleEndianInt64(q) ==
  IF q[8] >= 128 THEN -1
  ELSE IF q[5] # 0 \/ q[6] # 0 \/ q[7] # 0 \/ q[8] # 0 \/ q[4] >= 128 THEN IntCap
  ELSE q[1] + q[2] * 256 + q[3] * 65536 + q[4] * 16777216

RECURSIVE Itoa(_)
\* strconv: decimal digits of an integer
Itoa(n) ==
  IF n < 0 THEN <<45>> \o Itoa(0 - n)
  ELSE IF n < 10 THEN <<48 + n>>
  ELSE Itoa(n \div 10) \o <<48 + (n % 10)>>

RECURSIVE AtoiFrom(_, _, _)
AtoiFrom(d, i, acc) ==
  IF i > Len(d) THEN acc ELSE AtoiFrom(d, i + 1, acc * 10 + (d[i] - 48))

\* decimal digits to integer (more than 9 digits: IntCap)
Atoi(d) == IF Len(d) > 9 THEN IntCap ELSE AtoiFrom(d, 1, 0)

-----------------------------------------------------------------------------
(* Checksum (selfhost.go, calculateChecksum) *)

HexDigit(n) == IF n < 10 THEN 48 + n ELSE 87 + n

RECURSIVE Sum256Range(_, _, _)
Sum256Range(data, lo, hi) ==
  IF lo > hi THEN <<>>
  ELSE IF lo = hi
  THEN (IF data[lo] < 256 THEN <<data[lo]>>
        ELSE <<PadByte, PadByte>> \o Itoa(data[lo] - 256) \o <<PadByte, PadByte>>)
  ELSE LET mid == (lo + hi) \div 2
       IN Sum256Range(data, lo, mid) \o Sum256Range(data, mid + 1, hi)

\* sha256.Sum256 as a collision-free digest: the digest determines the data.
\* (A run cell is spelled PadByte PadByte <length> PadByte PadByte, which no
\* canonical blob spells otherwise.)
Sum256(data) == Sum256Range(data, 1, Len(data))

\* hex.EncodeToString
EncodeToString(d) ==
  [i \in 1..(2 * Len(d)) |-> IF i % 2 = 1 THEN HexDigit(d[(i + 1) \div 2] \div 16)
                              ELSE HexDigit(d[i \div 2] % 16)]

\* a checksum of the length of the data alone
calculateChecksumOfLength(data) ==
  <<115, 104, 97, 50, 53, 54, 58>> \o EncodeToString(Itoa(BLen(data)))

\* "sha256:" and the digest in hex
calculateChecksum(data) ==
  <<115, 104, 97, 50, 53, 54, 58>> \o EncodeToString(Sum256(data))

-----------------------------------------------------------------------------
(* encoding/json, for the subset of JSON the program writes and reads:      *)
(* objects, arrays, strings without escapes, integers and null.  A JSON     *)
(* value is [t, s, n, l]: t its kind, s a string's bytes, n a number, l an   *)
(* array's values or an object's members [k, v] in order.                   *)

J(t, s, n, l) == [t |-> t, s |-> s, n |-> n, l |-> l]

RECURSIVE Indent(_)
Indent(d) == IF d = 0 THEN <<>> ELSE <<32, 32>> \o Indent(d - 1)

RECURSIVE MarshalIndent(_, _), MarshalItems(_, _, _, _)
\* json.MarshalIndent(v, "", "  ") at nesting depth d
MarshalIndent(v, d) ==
  CASE v.t = "str" -> <<34>> \o v.s \o <<34>>
    [] v.t = "num" -> Itoa(v.n)
    [] v.t = "null" -> <<110, 117, 108, 108>>
    [] v.t = "arr" ->
         IF v.l = <<>> THEN <<91, 93>>
         ELSE <<91, 10>> \o MarshalItems(v.l, 1, d + 1, FALSE) \o <<10>> \o Indent(d) \o <<93>>
    [] v.t = "obj" ->
         IF v.l = <<>> THEN <<123, 125>>
         ELSE <<123, 10>> \o MarshalItems(v.l, 1, d + 1, TRUE) \o <<10>> \o Indent(d) \o <<125>>

MarshalItems(l, i, d, members) ==
  LET item == IF members
              THEN <<34>> \o l[i].k \o <<34, 58, 32>> \o MarshalIndent(l[i].v, d)
              ELSE MarshalIndent(l[i], d)
  IN Indent(d) \o item
     \o (IF i = Len(l) THEN <<>> ELSE <<44, 10>> \o MarshalItems(l, i + 1, d, members))

JFail == [ok |-> FALSE, v |-> J("null", <<>>, 0, <<>>), next |-> 0]
JOk(v, next) == [ok |-> TRUE, v |-> v, next |-> next]

IsWs(c) == c = 32 \/ c = 10 \/ c = 13 \/ c = 9
IsDigit(c) == c >= 48 /\ c <= 57

RECURSIVE SkipWs(_, _)
SkipWs(b, i) == IF i <= Len(b) /\ IsWs(b[i]) THEN SkipWs(b, i + 1) ELSE i

\* index of the first cell c at or after i, or 0
Find(b, i, c) ==
  LET S == {k \in i..Len(b) : b[k] = c}
  IN IF S = {} THEN 0 ELSE CHOOSE k \in S : \A j \in S : k <= j

RECURSIVE DigitsEnd(_, _)
DigitsEnd(b, i) == IF i <= Len(b) /\ IsDigit(b[i]) THEN DigitsEnd(b, i + 1) ELSE i

\* a string literal starting at the quote b[i]; control bytes and escapes
\* are outside the modelled subset and are refused
ParseString(b, i) ==
  Let(Find(b, i + 1, 34), LAMBDA j :
    IF j = 0 \/ \E k \in (i + 1)..(j - 1) : b[k] < 32 \/ b[k] = 92 THEN JFail
    ELSE JOk(J("str", SubSeq(b, i + 1, j - 1), 0, <<>>), j + 1))

\* an integer literal starting at b[i]; fractions and exponents are refused
ParseNumber(b, i) ==
  Let(IF b[i] = 45 THEN i + 1 ELSE i, LAMBDA s : Let(DigitsEnd(b, s), LAMBDA e :
    IF e = s \/ (b[s] = 48 /\ e > s + 1) THEN JFail
    ELSE IF e <= Len(b) /\ b[e] \in {46, 101, 69} THEN JFail
    ELSE JOk(J("num", <<>>, (IF b[i] = 45 THEN -1 ELSE 1) * Atoi(SubSeq(b, s, e - 1)), <<>>), e)))

RECURSIVE ParseValue(_, _), ParseElems(_, _, _), ParseMembers(_, _, _)
ParseValue(b, i0) ==
  Let(SkipWs(b, i0), LAMBDA i :
    IF i > Len(b) THEN JFail
    ELSE CASE b[i] = 34 -> ParseString(b, i)
           [] b[i] = 45 \/ IsDigit(b[i]) -> ParseNumber(b, i)
           [] b[i] = 110 ->
                IF i + 3 <= Len(b) /\ SubSeq(b, i, i + 3) = <<110, 117, 108, 108>>
                THEN JOk(J("null", <<>>, 0, <<>>), i + 4) ELSE JFail
           [] b[i] = 91 ->
                Let(SkipWs(b, i + 1), LAMBDA j :
                  IF j <= Len(b) /\ b[j] = 93 THEN JOk(J("arr", <<>>, 0, <<>>), j + 1)
                  ELSE ParseElems(b, i + 1, <<>>))
           [] b[i] = 123 ->
                Let(SkipWs(b, i + 1), LAMBDA j :
                  IF j <= Len(b) /\ b[j] = 125 THEN JOk(J("obj", <<>>, 0, <<>>), j + 1)
                  ELSE ParseMembers(b, i + 1, <<>>))
           [] OTHER -> JFail)

ParseElems(b, i, acc) ==
  Let(ParseValue(b, i), LAMBDA r : Let(SkipWs(b, r.next), LAMBDA j :
    IF ~r.ok \/ j > Len(b) THEN JFail
    ELSE IF b[j] = 44 THEN ParseElems(b, j + 1, Append(acc, r.v))
    ELSE IF b[j] = 93 THEN JOk(J("arr", <<>>, 0, Append(acc, r.v)), j + 1)
    ELSE JFail))

ParseMembers(b, i, acc) ==
  Let(SkipWs(b, i), LAMBDA q :
  Let(IF q <= Len(b) /\ b[q] = 34 THEN ParseString(b, q) ELSE JFail, LAMBDA key :
  Let(SkipWs(b, key.next), LAMBDA c :
  Let(IF key.ok /\ c <= Len(b) /\ b[c] = 58 THEN ParseValue(b, c + 1) ELSE JFail, LAMBDA r :
  Let(SkipWs(b, r.next), LAMBDA j :
  Let(Append(acc, [k |-> key.v.s, v |-> r.v]), LAMBDA members :
    IF ~r.ok \/ j > Len(b) THEN JFail
    ELSE IF b[j] = 44 THEN ParseMembers(b, j + 1, members)
    ELSE IF b[j] = 125 THEN JOk(J("obj", <<>>, 0, members), j + 1)
    ELSE JFail))))))

\* the syntax check and scan of json.Unmarshal: one value, then only white space
JSONDecode(b) ==
  Let(ParseValue(b, 1), LAMBDA r : IF r.ok /\ SkipWs(b, r.next) > Len(b) THEN r ELSE JFail)

-----------------------------------------------------------------------------
(* Errors: the chain of messages that fmt.Errorf("...: %w") builds, outermost *)
(* first, and the values the innermost message reports.                       *)

NoErr == [chain |-> <<>>, args |-> <<>>]
Err(msg, args) == [chain |-> <<msg>>, args |-> args]
Wrap(msg, e) == [chain |-> <<msg>> \o e.chain, args |-> e.args]
IsErr(e) == e.chain # <<>>

-----------------------------------------------------------------------------
(* Header (header.go) and Manifest (pkg/manifest/manifest.go).  A pointer or *)
(* slice is <<>> when nil and <<value>> otherwise.                           *)

MagicStart ==   \* "CONVEX_BUNDLE_START\x00"
  <<67, 79, 78, 86, 69, 88, 95, 66, 85, 78, 68, 76, 69, 95, 83, 84, 65, 82, 84, 0>>
MagicEnd ==     \* "CONVEX_BUNDLE_END\x00"
  <<67, 79, 78, 86, 69, 88, 95, 66, 85, 78, 68, 76, 69, 95, 69, 78, 68, 0>>
MagicStartLen == 20
MagicEndLen == 18
HeaderLengthSize == 4
FooterSize == 8
maxHeaderSize == 1048576
HeaderVersion == <<49, 46, 48, 46, 48>>                                  \* "1.0.0"
HeaderFormat == <<115, 101, 108, 102, 104, 111, 115, 116, 45, 118, 49>>  \* "selfhost-v1"
CompressionGzip == <<103, 122, 105, 112>>                                \* "gzip"
CompressionZstd == <<122, 115, 116, 100>>                                \* "zstd"

\* the json struct tags of Header and Manifest
Tag(field) ==
  CASE field = "version" -> <<118, 101, 114, 115, 105, 111, 110>>
    [] field = "format" -> <<102, 111, 114, 109, 97, 116>>
    [] field = "compression" -> <<99, 111, 109, 112, 114, 101, 115, 115, 105, 111, 110>>
    [] field = "bundleSize" -> <<98, 117, 110, 100, 108, 101, 83, 105, 122, 101>>
    [] field = "bundleChecksum" ->
         <<98, 117, 110, 100, 108, 101, 67, 104, 101, 99, 107, 115, 117, 109>>
    [] field = "manifest" -> <<109, 97, 110, 105, 102, 101, 115, 116>>
    [] field = "opsVersion" -> <<111, 112, 115, 86, 101, 114, 115, 105, 111, 110>>
    [] field = "createdAt" -> <<99, 114, 101, 97, 116, 101, 100, 65, 116>>
    [] field = "name" -> <<110, 97, 109, 101>>
    [] field = "apps" -> <<97, 112, 112, 115>>
    [] field = "platform" -> <<112, 108, 97, 116, 102, 111, 114, 109>>

ZeroManifest ==
  [Name |-> <<>>, Version |-> <<>>, Apps |-> <<>>, Platform |-> <<>>, CreatedAt |-> <<>>]

ZeroHeader ==
  [Version |-> <<>>, Format |-> <<>>, Compression |-> <<>>, BundleSize |-> 0,
   BundleChecksum |-> <<>>, Manifest |-> <<>>, OpsVersion |-> <<>>, CreatedAt |-> <<>>]

NewHeader ==
  [ZeroHeader EXCEPT !.Version = HeaderVersion, !.Format = HeaderFormat,
                     !.Compression = CompressionGzip]

Member(k, v) == [k |-> k, v |-> v]

\* what json.Marshal makes of a Manifest: every field, in declaration order
ManifestValue(m) ==
  LET Str(x) == J("str", x, 0, <<>>)
  IN J("obj", <<>>, 0,
       <<Member(Tag("name"), Str(m.Name)),
         Member(Tag("version"), Str(m.Version)),
         Member(Tag("apps"),
                IF m.Apps = <<>> THEN J("null", <<>>, 0, <<>>)
                ELSE J("arr", <<>>, 0, [i \in 1..Len(m.Apps[1]) |-> Str(m.Apps[1][i])])),
         Member(Tag("platform"), Str(m.Platform)),
         Member(Tag("createdAt"), Str(m.CreatedAt))>>)

HeaderValue(h) ==
  LET Str(x) == J("str", x, 0, <<>>)
  IN J("obj", <<>>, 0,
       <<Member(Tag("version"), Str(h.Version)),
         Member(Tag("format"), Str(h.Format)),
         Member(Tag("compression"), Str(h.Compression)),
         Member(Tag("bundleSize"), J("num", <<>>, h.BundleSize, <<>>)),
         Member(Tag("bundleChecksum"), Str(h.BundleChecksum)),
         Member(Tag("manifest"), IF h.Manifest = <<>> THEN J("null", <<>>, 0, <<>>)
                                 ELSE ManifestValue(h.Manifest[1])),
         Member(Tag("opsVersion"), Str(h.OpsVersion)),
         Member(Tag("createdAt"), Str(h.CreatedAt))>>)

\* Header.ToJSON
ToJSON(h) == MarshalIndent(HeaderValue(h), 0)

\* json.Unmarshal into a string field: null leaves it, a non-string is an error
StrField(cur, v) ==
  IF v.t = "str" THEN [ok |-> TRUE, x |-> v.s]
  ELSE IF v.t = "null" THEN [ok |-> TRUE, x |-> cur]
  ELSE [ok |-> FALSE, x |-> cur]

\* json.Unmarshal into a []string field
AppsField(cur, v) ==
  IF v.t = "null" THEN [ok |-> TRUE, x |-> <<>>]
  ELSE IF v.t = "arr" /\ \A i \in 1..Len(v.l) : v.l[i].t \in {"str", "null"}
       THEN [ok |-> TRUE, x |-> <<[i \in 1..Len(v.l) |-> v.l[i].s]>>]
  ELSE [ok |-> FALSE, x |-> cur]

RECURSIVE UnmarshalManifest(_, _, _)
\* the members l[i..] of a JSON object decoded into the Manifest m: a known key
\* sets its field, an unknown key is skipped (keys are matched exactly here)
UnmarshalManifest(l, i, m) ==
  IF i > Len(l) THEN [ok |-> TRUE, m |-> m]
  ELSE LET k == l[i].k
           v == l[i].v
           s == StrField(<<>>, v)
           a == AppsField(m.Apps, v)
       IN CASE k = Tag("name") ->
                 IF s.ok THEN UnmarshalManifest(l, i + 1, [m EXCEPT !.Name = StrField(@, v).x])
                 ELSE [ok |-> FALSE, m |-> m]
            [] k = Tag("version") ->
                 IF s.ok THEN UnmarshalManifest(l, i + 1, [m EXCEPT !.Version = StrField(@, v).x])
                 ELSE [ok |-> FALSE, m |-> m]
            [] k = Tag("apps") ->
                 IF a.ok THEN UnmarshalManifest(l, i + 1, [m EXCEPT !.Apps = a.x])
                 ELSE [ok |-> FALSE, m |-> m]
            [] k = Tag("platform") ->
                 IF s.ok THEN UnmarshalManifest(l, i + 1, [m EXCEPT !.Platform = StrField(@, v).x])
                 ELSE [ok |-> FALSE, m |-> m]
            [] k = Tag("createdAt") ->
                 IF s.ok THEN UnmarshalManifest(l, i + 1, [m EXCEPT !.CreatedAt = StrField(@, v).x])
                 ELSE [ok |-> FALSE, m |-> m]
            [] OTHER -> UnmarshalManifest(l, i + 1, m)

\* json.Unmarshal(data, &mf) of Create
ManifestFromJSON(data) ==
  Let(JSONDecode(data), LAMBDA j :
    IF ~j.ok THEN [ok |-> FALSE, m |-> ZeroManifest]
    ELSE IF j.v.t = "null" THEN [ok |-> TRUE, m |-> ZeroManifest]
    ELSE IF j.v.t = "obj" THEN UnmarshalManifest(j.v.l, 1, ZeroManifest)
    ELSE [ok |-> FALSE, m |-> ZeroManifest])

RECURSIVE UnmarshalHeader(_, _, _)
UnmarshalHeader(l, i, h) ==
  IF i > Len(l) THEN [ok |-> TRUE, h |-> h]
  ELSE LET k == l[i].k
           v == l[i].v
           s == StrField(<<>>, v)
           bad == [ok |-> FALSE, h |-> h]
       IN CASE k = Tag("version") ->
                 IF s.ok THEN UnmarshalHeader(l, i + 1, [h EXCEPT !.Version = StrField(@, v).x])
                 ELSE bad
            [] k = Tag("format") ->
                 IF s.ok THEN UnmarshalHeader(l, i + 1, [h EXCEPT !.Format = StrField(@, v).x])
                 ELSE bad
            [] k = Tag("compression") ->
                 IF s.ok THEN UnmarshalHeader(l, i + 1, [h EXCEPT !.Compression = StrField(@, v).x])
                 ELSE bad
            [] k = Tag("bundleSize") ->
                 IF v.t = "num" THEN UnmarshalHeader(l, i + 1, [h EXCEPT !.BundleSize = v.n])
                 ELSE IF v.t = "null" THEN UnmarshalHeader(l, i + 1, h)
                 ELSE bad
            [] k = Tag("bundleChecksum") ->
                 IF s.ok
                 THEN UnmarshalHeader(l, i + 1, [h EXCEPT !.BundleChecksum = StrField(@, v).x])
                 ELSE bad
            [] k = Tag("manifest") ->
                 Let(IF v.t = "obj"
                     THEN UnmarshalManifest(v.l, 1, IF h.Manifest = <<>> THEN ZeroManifest
                                                    ELSE h.Manifest[1])
                     ELSE [ok |-> v.t = "null", m |-> ZeroManifest], LAMBDA mm :
                   IF mm.ok
                   THEN UnmarshalHeader(l, i + 1,
                          [h EXCEPT !.Manifest = IF v.t = "null" THEN <<>> ELSE <<mm.m>>])
                   ELSE bad)
            [] k = Tag("opsVersion") ->
                 IF s.ok THEN UnmarshalHeader(l, i + 1, [h EXCEPT !.OpsVersion = StrField(@, v).x])
                 ELSE bad
            [] k = Tag("createdAt") ->
                 IF s.ok THEN UnmarshalHeader(l, i + 1, [h EXCEPT !.CreatedAt = StrField(@, v).x])
                 ELSE bad
            [] OTHER -> UnmarshalHeader(l, i + 1, h)

\* Header.FromJSON on a fresh &Header{}
FromJSON(data) ==
  Let(JSONDecode(data), LAMBDA j :
    IF ~j.ok THEN [ok |-> FALSE, h |-> ZeroHeader]
    ELSE IF j.v.t = "null" THEN [ok |-> TRUE, h |-> ZeroHeader]
    ELSE IF j.v.t = "obj" THEN UnmarshalHeader(j.v.l, 1, ZeroHeader)
    ELSE [ok |-> FALSE, h |-> ZeroHeader])

\* WriteHeader: the bytes written (ToJSON of a Header cannot fail)
WriteHeader(h) ==
  Let(ToJSON(h), LAMBDA data : Cat(BigEndianPutUint32(BLen(data)), data))

\* io.ReadFull(r, buf) on the file bytes f at position pos, for len(buf) = n
ReadFull(f, pos, n) ==
  IF n = 0 THEN [ok |-> TRUE, data |-> <<>>]
  ELSE IF n > BLen(f) - pos \/ pos < 0 THEN [ok |-> FALSE, data |-> <<>>]
  ELSE [ok |-> TRUE, data |-> Sub(f, pos, n)]

\* a ReadHeader without the ceiling on the declared length
ReadHeaderNoCeiling(f, pos) ==
  Let(ReadFull(f, pos, HeaderLengthSize), LAMBDA lengthBuf :
  Let(BigEndianUint32(Expand(lengthBuf.data)), LAMBDA length :
  Let(ReadFull(f, pos + HeaderLengthSize, length), LAMBDA data :
  Let(FromJSON(data.data), LAMBDA hdr :
    IF ~lengthBuf.ok
    THEN [err |-> Err("failed to read header length", <<>>), header |-> ZeroHeader,
          pos |-> BLen(f)]
    ELSE IF ~data.ok
    THEN [err |-> Err("failed to read header data", <<>>), header |-> ZeroHeader,
          pos |-> BLen(f)]
    ELSE IF ~hdr.ok
    THEN [err |-> Err("failed to parse header JSON", <<>>), header |-> ZeroHeader,
          pos |-> pos + HeaderLengthSize + length]
    ELSE [err |-> NoErr, header |-> hdr.h, pos |-> pos + HeaderLengthSize + length]))))

\* ReadHeader on the stream f positioned at pos; pos is the position it leaves
\* the stream at (io.ReadFull consumes what there is when it comes up short)
ReadHeader(f, pos) ==
  Let(ReadFull(f, pos, HeaderLengthSize), LAMBDA lengthBuf :
  Let(BigEndianUint32(Expand(lengthBuf.data)), LAMBDA length :
  Let(ReadFull(f, pos + HeaderLengthSize, length), LAMBDA data :
  Let(FromJSON(data.data), LAMBDA hdr :
    IF ~lengthBuf.ok
    THEN [err |-> Err("failed to read header length", <<>>), header |-> ZeroHeader,
          pos |-> BLen(f)]
    ELSE IF length > maxHeaderSize
    THEN [err |-> Err("header size exceeds maximum allowed size", <<length, maxHeaderSize>>),
          header |-> ZeroHeader, pos |-> pos + HeaderLengthSize]
    ELSE IF ~data.ok
    THEN [err |-> Err("failed to read header data", <<>>), header |-> ZeroHeader,
          pos |-> BLen(f)]
    ELSE IF ~hdr.ok
    THEN [err |-> Err("failed to parse header JSON", <<>>), header |-> ZeroHeader,
          pos |-> pos + HeaderLengthSize + length]
    ELSE [err |-> NoErr, header |-> hdr.h, pos |-> pos + HeaderLengthSize + length]))))

\* a validation that lets a bundle size of 0 through
ValidateZeroSize(h) ==
  IF h.Version = <<>> THEN Err("header version is required", <<>>)
  ELSE IF h.Format # HeaderFormat
  THEN Err("invalid header format", <<HeaderFormat, h.Format>>)
  ELSE IF h.Compression # CompressionGzip /\ h.Compression # CompressionZstd
  THEN Err("invalid compression", <<h.Compression>>)
  ELSE IF h.BundleSize < 0 THEN Err("bundle size must be positive", <<>>)
  ELSE IF h.BundleChecksum = <<>> THEN Err("bundle checksum is required", <<>>)
  ELSE IF h.Manifest = <<>> THEN Err("manifest is required", <<>>)
  ELSE IF h.CreatedAt = <<>> THEN Err("createdAt is required", <<>>)
  ELSE NoErr

\* Header.Validate
Validate(h) ==
  IF h.Version = <<>> THEN Err("header version is required", <<>>)
  ELSE IF h.Format # HeaderFormat
  THEN Err("invalid header format", <<HeaderFormat, h.Format>>)
  ELSE IF h.Compression # CompressionGzip /\ h.Compression # CompressionZstd
  THEN Err("invalid compression", <<h.Compression>>)
  ELSE IF h.BundleSize <= 0 THEN Err("bundle size must be positive", <<>>)
  ELSE IF h.BundleChecksum = <<>> THEN Err("bundle checksum is required", <<>>)
  ELSE IF h.Manifest = <<>> THEN Err("manifest is required", <<>>)
  ELSE IF h.CreatedAt = <<>> THEN Err("createdAt is required", <<>>)
  ELSE NoErr

-----------------------------------------------------------------------------
(* Paths (path/filepath): strings of bytes, "/" = 47, "." = 46 *)

Slash == <<47>>

RECURSIVE SplitFrom(_, _, _, _)
\* the components of p between slashes (empty ones included)
SplitFrom(p, i, cur, acc) ==
  IF i > Len(p) THEN Append(acc, cur)
  ELSE IF p[i] = 47 THEN SplitFrom(p, i + 1, <<>>, Append(acc, cur))
  ELSE SplitFrom(p, i + 1, Append(cur, p[i]), acc)

Split(p) == SplitFrom(p, 1, <<>>, <<>>)

RECURSIVE JoinComps(_)
JoinComps(cs) ==
  IF cs = <<>> THEN <<>>
  ELSE IF Len(cs) = 1 THEN cs[1]
  ELSE cs[1] \o Slash \o JoinComps(Tail(cs))

RECURSIVE CleanComps(_, _, _, _)
\* the lexical processing of filepath.Clean: drop "" and ".", let ".." eat the
\* component before it
CleanComps(cs, i, out, rooted) ==
  IF i > Len(cs) THEN out
  ELSE LET c == cs[i]
       IN IF c = <<>> \/ c = <<46>> THEN CleanComps(cs, i + 1, out, rooted)
          ELSE IF c = <<46, 46>>
          THEN (IF out # <<>> /\ out[Len(out)] # <<46, 46>>
                THEN CleanComps(cs, i + 1, SubSeq(out, 1, Len(out) - 1), rooted)
                ELSE IF rooted THEN CleanComps(cs, i + 1, out, rooted)
                ELSE CleanComps(cs, i + 1, Append(out, c), rooted))
          ELSE CleanComps(cs, i + 1, Append(out, c), rooted)

\* filepath.Clean
Clean(p) ==
  IF p = <<>> THEN <<46>>
  ELSE Let(JoinComps(CleanComps(Split(p), 1, <<>>, p[1] = 47)), LAMBDA out :
         IF p[1] = 47 THEN Slash \o out
         ELSE IF out = <<>> THEN <<46>> ELSE out)

\* filepath.Join(a, b)
Join(a, b) ==
  IF a = <<>> /\ b = <<>> THEN <<>>
  ELSE Clean(IF a = <<>> THEN b ELSE IF b = <<>> THEN a ELSE a \o Slash \o b)

\* filepath.Dir
Dir(p) ==
  LET slashes == {i \in 1..Len(p) : p[i] = 47}
      k == IF slashes = {} THEN 0 ELSE CHOOSE i \in slashes : \A j \in slashes : j <= i
  IN Clean(SubSeq(p, 1, k))

\* filepath.Base of a clean path
Base(p) == LET cs == Split(p) IN cs[Len(cs)]

\* filepath.Rel(base, targ) for targ = base or a path below it
Rel(base, targ) ==
  Let(Clean(base), LAMBDA b : Let(Clean(targ), LAMBDA q :
    IF q = b THEN <<46>>
    ELSE IF b = Slash THEN SubSeq(q, 2, Len(q))
    ELSE SubSeq(q, Len(b) + 2, Len(q))))

RECURSIVE LexLess(_, _)
\* a < b as Go compares strings
LexLess(a, b) ==
  IF b = <<>> THEN FALSE
  ELSE IF a = <<>> THEN TRUE
  ELSE IF a[1] # b[1] THEN a[1] < b[1]
  ELSE LexLess(Tail(a), Tail(b))

RECURSIVE SortNames(_)
\* a set of names in increasing order
SortNames(S) ==
  IF S = {} THEN <<>>
  ELSE LET m == CHOOSE x \in S : \A y \in S : x = y \/ LexLess(x, y)
       IN <<m>> \o SortNames(S \ {m})

-----------------------------------------------------------------------------
(* The file system the program runs on (package os): a map from clean        *)
(* absolute paths to nodes.  A node is a regular file (data, mode), a        *)
(* directory (mode) or a symbolic link (target).  Relative paths are taken   *)
(* from the root.  Every node belongs to the user the process runs as, so   *)
(* the owner's permission bits decide an access, and they decide nothing     *)
(* for the superuser.  The key <<>>, which is no path, holds the effective   *)
(* user id of the process.  The umask is 0.                                  *)

FileNode(data, mode) == [kind |-> "file", data |-> data, target |-> <<>>, mode |-> mode]
DirNode(mode) == [kind |-> "dir", data |-> <<>>, target |-> <<>>, mode |-> mode]
LinkNode(target) == [kind |-> "link", data |-> <<>>, target |-> target, mode |-> 511]

CredNode(euid) == [kind |-> "cred", data |-> <<>>, target |-> <<>>, mode |-> euid]

\* the owner's permission bit for an access: read 0400, write 0200, search 0100
PermBit(access) == CASE access = "r" -> 256 [] access = "w" -> 128 [] access = "x" -> 64

May(f, node, access) == f[<<>>].mode = 0 \/ (node.mode \div PermBit(access)) % 2 = 1

Put(f, p, node) == [q \in DOMAIN f \cup {p} |-> IF q = p THEN node ELSE f[q]]

Under(d, c) == IF d = Slash THEN Slash \o c ELSE d \o Slash \o c

RECURSIVE ResolveC(_, _, _, _, _)
\* Path resolution from the directory cur along the components comps, following
\* symbolic links (the last one only with follow).  st is "ok" (path exists),
\* "new" (only the last component is missing), "noent", "notdir", "loop" or
\* "perm" (a directory on the way may not be searched).
ResolveC(f, cur, comps, follow, fuel) ==
  IF comps = <<>> THEN [st |-> "ok", path |-> cur]
  ELSE IF ~May(f, f[cur], "x") THEN [st |-> "perm", path |-> cur]
  ELSE Let(Under(cur, Head(comps)), LAMBDA next :
         LET n == f[next]
             base == IF n.target # <<>> /\ n.target[1] = 47 THEN n.target
                     ELSE Under(cur, n.target)
             whole == base \o Slash \o JoinComps(Tail(comps))
         IN IF next \notin DOMAIN f
            THEN [st |-> IF Len(comps) = 1 THEN "new" ELSE "noent", path |-> next]
            ELSE IF n.kind = "link" /\ (Len(comps) > 1 \/ follow)
            THEN (IF fuel = 0 THEN [st |-> "loop", path |-> next]
                  ELSE ResolveC(f, Slash, CleanComps(Split(whole), 1, <<>>, TRUE),
                                follow, fuel - 1))
            ELSE IF Len(comps) = 1 THEN [st |-> "ok", path |-> next]
            ELSE IF n.kind # "dir" THEN [st |-> "notdir", path |-> next]
            ELSE ResolveC(f, next, Tail(comps), follow, fuel))

Resolve(f, p, follow) ==
  ResolveC(f, Slash, CleanComps(Split(p), 1, <<>>, TRUE), follow, 8)

\* os.Stat: err is "" (nil), "notexist" (os.IsNotExist holds) or "other"
Stat(f, p) ==
  Let(Resolve(f, p, TRUE), LAMBDA r :
    [err |-> IF r.st = "ok" THEN "" ELSE IF r.st \in {"new", "noent"} THEN "notexist"
             ELSE "other",
     node |-> IF r.st = "ok" THEN f[r.path] ELSE DirNode(0),
     path |-> r.path])

\* os.Open, os.ReadFile: the node read, when the open succeeds
Open(f, p) ==
  Let(Stat(f, p), LAMBDA s :
    [ok |-> s.err = "" /\ May(f, s.node, "r"), node |-> s.node, path |-> s.path])

\* os.OpenFile(p, O_CREATE|O_TRUNC|..., mode): the file system after it and the
\* real path of the open file
OpenTrunc(f, p, mode) ==
  Let(Resolve(f, p, TRUE), LAMBDA r :
    IF r.st = "ok" /\ f[r.path].kind = "file" /\ May(f, f[r.path], "w")
    THEN [ok |-> TRUE, fs |-> [f EXCEPT ![r.path].data = <<>>], path |-> r.path]
    ELSE IF r.st = "new" /\ May(f, f[Dir(r.path)], "w")
    THEN [ok |-> TRUE, fs |-> Put(f, r.path, FileNode(<<>>, mode)), path |-> r.path]
    ELSE [ok |-> FALSE, fs |-> f, path |-> r.path])

\* File.Write on the open file at real path q (writes are sequential from 0)
Write(f, q, data) == [f EXCEPT ![q].data = Cat(@, data)]

RECURSIVE MkdirAll(_, _, _)
\* os.MkdirAll
MkdirAll(f, p, mode) ==
  Let(Resolve(f, p, TRUE), LAMBDA r :
    IF r.st = "ok" THEN [ok |-> f[r.path].kind = "dir", fs |-> f]
    ELSE IF r.st \notin {"new", "noent"} THEN [ok |-> FALSE, fs |-> f]
    ELSE \* the parent first, when it is missing too; then Mkdir
         Let(IF r.st = "new" THEN [ok |-> TRUE, fs |-> f]
             ELSE MkdirAll(f, Dir(Clean(Slash \o p)), mode), LAMBDA up :
         Let(Resolve(up.fs, p, TRUE), LAMBDA r2 :
           IF up.ok /\ r2.st = "new" /\ May(up.fs, up.fs[Dir(r2.path)], "w")
           THEN [ok |-> TRUE, fs |-> Put(up.fs, r2.path, DirNode(mode))]
           ELSE [ok |-> FALSE, fs |-> up.fs])))

Children(f, d) ==
  {q \in DOMAIN f : /\ q # Slash
                    /\ HasPrefix(q, Under(d, <<>>))
                    /\ Len(q) > Len(Under(d, <<>>))
                    /\ \A i \in (Len(Under(d, <<>>)) + 1)..Len(q) : q[i] # 47}

\* os.Remove, its error dropped: a file or link goes, a directory only if empty
Remove(f, p) ==
  Let(Resolve(f, p, FALSE), LAMBDA r :
    IF r.st = "ok" /\ r.path # Slash /\ May(f, f[Dir(r.path)], "w")
       /\ (f[r.path].kind = "dir" => Children(f, r.path) = {})
    THEN [q \in DOMAIN f \ {r.path} |-> f[q]] ELSE f)

\* os.Symlink(target, p)
Symlink(f, target, p) ==
  Let(Resolve(f, p, FALSE), LAMBDA r :
    IF r.st = "new" /\ May(f, f[Dir(r.path)], "w")
    THEN [ok |-> TRUE, fs |-> Put(f, r.path, LinkNode(target))]
    ELSE [ok |-> FALSE, fs |-> f])

RECURSIVE WalkFrom(_, _), WalkEach(_, _, _)
\* filepath.Walk: the real paths visited from q, a directory before its
\* entries, the entries of a directory in the order of their names
WalkFrom(f, q) ==
  IF f[q].kind = "dir"
  THEN <<q>> \o WalkEach(f, q, SortNames({Base(c) : c \in Children(f, q)}))
  ELSE <<q>>

WalkEach(f, q, names) ==
  IF names = <<>> THEN <<>>
  ELSE WalkFrom(f, Under(q, Head(names))) \o WalkEach(f, q, Tail(names))

\* the visited node at q makes the walk of createCompressedTar fail: a
\* directory that may not be listed, or whose entries may not be examined, or
\* a regular file that may not be opened
WalkFails(f, q) ==
  \/ f[q].kind = "dir" /\ ~May(f, f[q], "r")
  \/ f[q].kind = "dir" /\ Children(f, q) # {} /\ ~May(f, f[q], "x")
  \/ f[q].kind = "file" /\ ~May(f, f[q], "r")

-----------------------------------------------------------------------------
(* archive/tar and compress/gzip.  A tar header block is reduced to the      *)
(* fields the program sets and reads: an entry is written as                 *)
(*   Typeflag, len(Name), Name, Mode (2 bytes), len(Linkname), Linkname,     *)
(*   Size (4 bytes), data                                                    *)
(* and the archive ends with a 0 byte.  A gzip stream is the two magic       *)
(* bytes, the data and a check byte; a stream whose check fails is reported  *)
(* at the first read.                                                        *)

TypeReg == 48
TypeSymlink == 50
TypeDir == 53

TarEntry(typeflag, name, mode, linkname, data) ==
  [Typeflag |-> typeflag, Name |-> name, Mode |-> mode, Linkname |-> linkname,
   Data |-> data]

\* tar.Writer: WriteHeader followed by the entry's data
TarEntryBytes(e) ==
  CatAll(<< <<e.Typeflag, Len(e.Name)>>, e.Name, <<e.Mode \div 256, e.Mode % 256>>,
            <<Len(e.Linkname)>>, e.Linkname, BigEndianPutUint32(BLen(e.Data)), e.Data >>)

RECURSIVE TarBytes(_)
\* the archive after tar.Writer.Close
TarBytes(entries) ==
  IF entries = <<>> THEN <<0>>
  ELSE Cat(TarEntryBytes(Head(entries)), TarBytes(Tail(entries)))

RECURSIVE TarRead(_, _, _)
\* tar.Reader: the entries of the archive d from offset pos, up to the end
\* mark or a clean end of input; ok is FALSE when Next fails on a broken entry
TarRead(d, pos, acc) ==
  Let(BLen(d), LAMBDA n :
  Let(ByteAt(d, pos), LAMBDA typeflag :
  Let(ByteAt(d, pos + 1), LAMBDA nameLen :
  Let(pos + 2 + nameLen + 2, LAMBDA linkAt :
  Let(linkAt + 1 + ByteAt(d, linkAt), LAMBDA sizeAt :
  Let(BigEndianUint32(Expand(Sub(d, sizeAt, 4))), LAMBDA size :
    IF pos >= n \/ typeflag = 0 THEN [ok |-> TRUE, entries |-> acc]
    ELSE IF pos + 2 > n \/ linkAt + 1 > n \/ sizeAt + 4 > n
    THEN [ok |-> FALSE, entries |-> acc]
    ELSE IF sizeAt + 4 + size > n THEN [ok |-> FALSE, entries |-> acc]
    ELSE TarRead(d, sizeAt + 4 + size,
                 Append(acc, TarEntry(typeflag, Expand(Sub(d, pos + 2, nameLen)),
                                      BigEndianUint32(<<0, 0>> \o Expand(Sub(d, linkAt - 2, 2))),
                                      Expand(Sub(d, linkAt + 1, sizeAt - linkAt - 1)),
                                      Sub(d, sizeAt + 4, size))))))))))

RECURSIVE ByteSumRange(_, _, _)
\* the sum modulo 256 of the bytes in cells lo..hi of d: over all of d, the
\* check byte of a gzip stream (in place of its CRC-32)
ByteSumRange(d, lo, hi) ==
  IF lo > hi THEN 0
  ELSE IF lo = hi
  THEN (IF d[lo] >= 256 THEN (PadByte * ((d[lo] - 256) % 256)) % 256 ELSE d[lo])
  ELSE LET mid == (lo + hi) \div 2
       IN (ByteSumRange(d, lo, mid) + ByteSumRange(d, mid + 1, hi)) % 256

\* gzip.Writer, written and closed
Gzip(data) == CatAll(<<<<31, 139>>, data, <<ByteSumRange(data, 1, Len(data))>>>>)

\* gzip.NewReader and the reads from it: st is "ok", "header" (NewReader
\* fails) or "corrupt" (a read fails)
Gunzip(z) ==
  Let(BLen(z), LAMBDA n : Let(Sub(z, 2, n - 3), LAMBDA body :
    IF n < 3 \/ Expand(Sub(z, 0, 2)) # <<31, 139>> THEN [st |-> "header", data |-> <<>>]
    ELSE IF ByteAt(z, n - 1) # ByteSumRange(body, 1, Len(body))
    THEN [st |-> "corrupt", data |-> <<>>]
    ELSE [st |-> "ok", data |-> body]))

-----------------------------------------------------------------------------
(* The payload transcoder (selfhost.go) *)

\* the tar header and data that the walk function writes for the node at real
\* path q of the tree rooted at root
WalkEntry(f, root, q) ==
  LET node == f[q]
  IN TarEntry(IF node.kind = "dir" THEN TypeDir
              ELSE IF node.kind = "link" THEN TypeSymlink ELSE TypeReg,
              Rel(root, q), node.mode, node.target, node.data)

RECURSIVE TotalSizeOfAll(_)
\* a sum that also counts what a symbolic link entry carries, its target
TotalSizeOfAll(entries) ==
  IF entries = <<>> THEN 0
  ELSE BLen(Head(entries).Data) + Len(Head(entries).Linkname)
       + TotalSizeOfAll(Tail(entries))

RECURSIVE TotalSize(_)
TotalSize(entries) ==
  IF entries = <<>> THEN 0
  ELSE (IF Head(entries).Typeflag = TypeReg THEN BLen(Head(entries).Data) ELSE 0)
       + TotalSize(Tail(entries))

\* createCompressedTar: the error, the bytes written to w and the size returned
createCompressedTar(f, bundleDir, compression) ==
  Let(Resolve(f, bundleDir, FALSE), LAMBDA r :
  Let(WalkFrom(f, r.path), LAMBDA visited :
  \* the root itself (relPath ".") is skipped
  Let([i \in 1..(Len(visited) - 1) |-> WalkEntry(f, r.path, visited[i + 1])], LAMBDA entries :
    IF compression = CompressionZstd
    THEN [err |-> Err("zstd compression is not yet implemented", <<>>), data |-> <<>>, size |-> 0]
    ELSE IF compression # CompressionGzip /\ compression # <<>>
    THEN [err |-> Err("unsupported compression", <<compression>>), data |-> <<>>, size |-> 0]
    ELSE IF r.st # "ok"
    THEN [err |-> Err("lstat", <<bundleDir>>), data |-> <<>>, size |-> 0]
    ELSE IF \E i \in 1..Len(visited) : WalkFails(f, visited[i])
    THEN [err |-> Err("walk", <<bundleDir>>), data |-> <<>>, size |-> 0]
    ELSE [err |-> NoErr, data |-> Gzip(TarBytes(entries)), size |-> TotalSize(entries)])))

\* one iteration of the loop of extractCompressedTar, for the tar header e
ExtractEntry(f, e, outputDir) ==
  Let(Join(outputDir, e.Name), LAMBDA targetPath :
  \* os.MkdirAll(targetPath, mode) for a directory, of the parent otherwise
  Let(IF e.Typeflag = TypeDir THEN MkdirAll(f, targetPath, e.Mode)
      ELSE MkdirAll(f, Dir(targetPath), 493), LAMBDA dir :
  Let(OpenTrunc(dir.fs, targetPath, e.Mode), LAMBDA file :
  Let(Symlink(Remove(dir.fs, targetPath), e.Linkname, targetPath), LAMBDA link :
    IF ~HasPrefix(Clean(targetPath), Clean(outputDir))
    THEN [err |-> Err("invalid path in tar", <<e.Name>>), fs |-> f]
    ELSE IF e.Typeflag = TypeDir
    THEN [err |-> IF dir.ok THEN NoErr ELSE Err("failed to create directory", <<targetPath>>),
          fs |-> dir.fs]
    ELSE IF e.Typeflag = TypeReg
    THEN (IF ~dir.ok
          THEN [err |-> Err("failed to create parent directory", <<targetPath>>), fs |-> dir.fs]
          ELSE IF ~file.ok
          THEN [err |-> Err("failed to create file", <<targetPath>>), fs |-> dir.fs]
          ELSE [err |-> NoErr, fs |-> Write(file.fs, file.path, e.Data)])
    ELSE IF e.Typeflag = TypeSymlink
    THEN (IF ~dir.ok
          THEN [err |-> Err("failed to create parent directory for symlink", <<targetPath>>),
                fs |-> dir.fs]
          ELSE [err |-> IF link.ok THEN NoErr ELSE Err("failed to create symlink", <<targetPath>>),
                fs |-> link.fs])
    ELSE [err |-> NoErr, fs |-> f]))))

RECURSIVE ExtractEntries(_, _, _, _, _)
\* the loop of extractCompressedTar over the headers that tarReader.Next returns
ExtractEntries(f, entries, i, readOk, outputDir) ==
  IF i > Len(entries)
  THEN [err |-> IF readOk THEN NoErr ELSE Err("failed to read tar header", <<>>), fs |-> f]
  ELSE Let(ExtractEntry(f, entries[i], outputDir), LAMBDA r :
         IF IsErr(r.err) THEN r
         ELSE ExtractEntries(r.fs, entries, i + 1, readOk, outputDir))

\* an extractCompressedTar that knows no "zstd": the name falls to the default
extractCompressedTarGzipOnly(f, compressedData, outputDir, compression) ==
  Let(Gunzip(compressedData), LAMBDA z : Let(TarRead(z.data, 0, <<>>), LAMBDA tr :
    IF compression # CompressionGzip /\ compression # <<>>
    THEN [err |-> Err("unsupported compression", <<compression>>), fs |-> f]
    ELSE IF z.st = "header"
    THEN [err |-> Err("failed to create gzip reader", <<>>), fs |-> f]
    ELSE IF z.st = "corrupt"
    THEN [err |-> Err("failed to read tar header", <<>>), fs |-> f]
    ELSE ExtractEntries(f, tr.entries, 1, tr.ok, outputDir)))

\* extractCompressedTar
extractCompressedTar(f, compressedData, outputDir, compression) ==
  Let(Gunzip(compressedData), LAMBDA z : Let(TarRead(z.data, 0, <<>>), LAMBDA tr :
    IF compression = CompressionZstd
    THEN [err |-> Err("zstd decompression is not yet implemented", <<>>), fs |-> f]
    ELSE IF compression # CompressionGzip /\ compression # <<>>
    THEN [err |-> Err("unsupported compression", <<compression>>), fs |-> f]
    ELSE IF z.st = "header"
    THEN [err |-> Err("failed to create gzip reader", <<>>), fs |-> f]
    ELSE IF z.st = "corrupt"
    THEN [err |-> Err("failed to read tar header", <<>>), fs |-> f]
    ELSE ExtractEntries(f, tr.entries, 1, tr.ok, outputDir)))

-----------------------------------------------------------------------------
(* The container operations (selfhost.go) *)

\* manifest.json, backend, convex.db, credentials.json
requiredFiles ==
  <<<<109, 97, 110, 105, 102, 101, 115, 116, 46, 106, 115, 111, 110>>,
    <<98, 97, 99, 107, 101, 110, 100>>,
    <<99, 111, 110, 118, 101, 120, 46, 100, 98>>,
    <<99, 114, 101, 100, 101, 110, 116, 105, 97, 108, 115, 46, 106, 115, 111, 110>>>>

\* time.Now().UTC().Format(time.RFC3339) at clock value now: "T" and the digits
FormatTime(now) == <<84>> \o Itoa(now)

\* a validation that knows one platform
validateCreateInputsForLinux(f, opts) ==
  Let(Stat(f, opts.BundleDir), LAMBDA bundle :
  Let({i \in 1..Len(requiredFiles) :
         Stat(f, Join(opts.BundleDir, requiredFiles[i])).err = "notexist"}, LAMBDA missing :
  Let(Stat(f, opts.OpsBinary), LAMBDA ops :
    IF opts.BundleDir = <<>> THEN Err("bundle directory is required", <<>>)
    ELSE IF opts.OpsBinary = <<>> THEN Err("ops binary is required", <<>>)
    ELSE IF opts.OutputPath = <<>> THEN Err("output path is required", <<>>)
    ELSE IF opts.Platform = <<>> THEN Err("platform is required", <<>>)
    ELSE IF opts.Platform # <<108, 105, 110, 117, 120, 45, 120, 54, 52>>
    THEN Err("unsupported platform", <<opts.Platform>>)
    ELSE IF bundle.err = "notexist"
    THEN Err("bundle directory does not exist", <<opts.BundleDir>>)
    ELSE IF bundle.err # "" THEN Err("failed to access bundle directory", <<>>)
    ELSE IF bundle.node.kind # "dir"
    THEN Err("bundle path is not a directory", <<opts.BundleDir>>)
    ELSE IF missing # {}
    THEN Err("bundle is missing required file",
             <<requiredFiles[CHOOSE i \in missing : \A j \in missing : i <= j]>>)
    ELSE IF ops.err = "notexist" THEN Err("ops binary does not exist", <<opts.OpsBinary>>)
    ELSE IF ops.err # "" THEN Err("failed to access ops binary", <<>>)
    ELSE IF ops.node.kind = "dir"
    THEN Err("ops binary path is a directory", <<opts.OpsBinary>>)
    ELSE IF opts.Compression # CompressionGzip /\ opts.Compression # CompressionZstd
            /\ opts.Compression # <<>>
    THEN Err("invalid compression", <<opts.Compression>>)
    ELSE NoErr)))

\* validateCreateInputs
validateCreateInputs(f, opts) ==
  Let(Stat(f, opts.BundleDir), LAMBDA bundle :
  Let({i \in 1..Len(requiredFiles) :
         Stat(f, Join(opts.BundleDir, requiredFiles[i])).err = "notexist"}, LAMBDA missing :
  Let(Stat(f, opts.OpsBinary), LAMBDA ops :
    IF opts.BundleDir = <<>> THEN Err("bundle directory is required", <<>>)
    ELSE IF opts.OpsBinary = <<>> THEN Err("ops binary is required", <<>>)
    ELSE IF opts.OutputPath = <<>> THEN Err("output path is required", <<>>)
    ELSE IF opts.Platform = <<>> THEN Err("platform is required", <<>>)
    ELSE IF bundle.err = "notexist"
    THEN Err("bundle directory does not exist", <<opts.BundleDir>>)
    ELSE IF bundle.err # "" THEN Err("failed to access bundle directory", <<>>)
    ELSE IF bundle.node.kind # "dir"
    THEN Err("bundle path is not a directory", <<opts.BundleDir>>)
    ELSE IF missing # {}
    THEN Err("bundle is missing required file",
             <<requiredFiles[CHOOSE i \in missing : \A j \in missing : i <= j]>>)
    ELSE IF ops.err = "notexist" THEN Err("ops binary does not exist", <<opts.OpsBinary>>)
    ELSE IF ops.err # "" THEN Err("failed to access ops binary", <<>>)
    ELSE IF ops.node.kind = "dir"
    THEN Err("ops binary path is a directory", <<opts.OpsBinary>>)
    ELSE IF opts.Compression # CompressionGzip /\ opts.Compression # CompressionZstd
            /\ opts.Compression # <<>>
    THEN Err("invalid compression", <<opts.Compression>>)
    ELSE NoErr)))

\* a Create that creates the output file before it checks its inputs
CreateOutputFirst(f, opts0, now) ==
  Let(IF opts0.Compression = <<>>
      THEN [opts0 EXCEPT !.Compression = CompressionGzip] ELSE opts0, LAMBDA opts :
  Let(validateCreateInputs(f, opts), LAMBDA verr :
  Let(Open(f, Join(opts.BundleDir, requiredFiles[1])), LAMBDA mfile :
  Let(ManifestFromJSON(mfile.node.data), LAMBDA mf :
  Let(createCompressedTar(f, opts.BundleDir, opts.Compression), LAMBDA tar :
  Let([NewHeader EXCEPT !.Compression = opts.Compression,
                        !.BundleSize = tar.size,
                        !.BundleChecksum = calculateChecksum(tar.data),
                        !.Manifest = <<mf.m>>,
                        !.OpsVersion = opts.OpsVersion,
                        !.CreatedAt = FormatTime(now)], LAMBDA header :
  Let(Validate(header), LAMBDA herr :
  Let(OpenTrunc(f, opts.OutputPath, 438), LAMBDA out :
  \* os.Open(opts.OpsBinary), opsFile.Stat() and io.Copy: all after os.Create
  Let(Open(out.fs, opts.OpsBinary), LAMBDA ops :
  Let([err |-> NoErr, fs |-> out.fs, header |-> header, payload |-> <<>>, out |-> <<>>],
      LAMBDA fail :
    IF IsErr(verr) THEN [fail EXCEPT !.err = Wrap("validation failed", verr)]
    ELSE IF ~mfile.ok \/ mfile.node.kind # "file"
    THEN [fail EXCEPT !.err = Err("failed to read manifest.json", <<>>)]
    ELSE IF ~mf.ok THEN [fail EXCEPT !.err = Err("failed to parse manifest.json", <<>>)]
    ELSE IF IsErr(tar.err)
    THEN [fail EXCEPT !.err = Wrap("failed to create compressed archive", tar.err)]
    ELSE IF IsErr(herr) THEN [fail EXCEPT !.err = Wrap("invalid header", herr)]
    ELSE IF ~out.ok THEN [fail EXCEPT !.err = Err("failed to create output file", <<>>)]
    ELSE IF ~ops.ok
    THEN [fail EXCEPT !.err = Err("failed to open ops binary", <<>>), !.fs = out.fs]
    ELSE [err |-> NoErr,
          fs |-> [out.fs EXCEPT
                    ![out.path].data =
                       CatAll(<<ops.node.data, MagicStart, WriteHeader(header), tar.data,
                                MagicEnd, LittleEndianPutUint64(BLen(ops.node.data))>>),
                    ![out.path].mode = 493],
          header |-> header, payload |-> tar.data, out |-> out.path]))))))))))

\* a Create whose archive carries the time of the call
CreateStamped(f, opts0, now) ==
  Let(IF opts0.Compression = <<>>
      THEN [opts0 EXCEPT !.Compression = CompressionGzip] ELSE opts0, LAMBDA opts :
  Let(validateCreateInputs(f, opts), LAMBDA verr :
  Let(Open(f, Join(opts.BundleDir, requiredFiles[1])), LAMBDA mfile :
  Let(ManifestFromJSON(mfile.node.data), LAMBDA mf :
  Let([createCompressedTar(f, opts.BundleDir, opts.Compression)
        EXCEPT !.data = Cat(@, FormatTime(now))], LAMBDA tar :
  Let([NewHeader EXCEPT !.Compression = opts.Compression,
                        !.BundleSize = tar.size,
                        !.BundleChecksum = calculateChecksum(tar.data),
                        !.Manifest = <<mf.m>>,
                        !.OpsVersion = opts.OpsVersion,
                        !.CreatedAt = FormatTime(now)], LAMBDA header :
  Let(Validate(header), LAMBDA herr :
  Let(OpenTrunc(f, opts.OutputPath, 438), LAMBDA out :
  \* os.Open(opts.OpsBinary), opsFile.Stat() and io.Copy: all after os.Create
  Let(Open(out.fs, opts.OpsBinary), LAMBDA ops :
  Let([err |-> NoErr, fs |-> f, header |-> header, payload |-> <<>>, out |-> <<>>],
      LAMBDA fail :
    IF IsErr(verr) THEN [fail EXCEPT !.err = Wrap("validation failed", verr)]
    ELSE IF ~mfile.ok \/ mfile.node.kind # "file"
    THEN [fail EXCEPT !.err = Err("failed to read manifest.json", <<>>)]
    ELSE IF ~mf.ok THEN [fail EXCEPT !.err = Err("failed to parse manifest.json", <<>>)]
    ELSE IF IsErr(tar.err)
    THEN [fail EXCEPT !.err = Wrap("failed to create compressed archive", tar.err)]
    ELSE IF IsErr(herr) THEN [fail EXCEPT !.err = Wrap("invalid header", herr)]
    ELSE IF ~out.ok THEN [fail EXCEPT !.err = Err("failed to create output file", <<>>)]
    ELSE IF ~ops.ok
    THEN [fail EXCEPT !.err = Err("failed to open ops binary", <<>>), !.fs = out.fs]
    ELSE [err |-> NoErr,
          fs |-> [out.fs EXCEPT
                    ![out.path].data =
                       CatAll(<<ops.node.data, MagicStart, WriteHeader(header), tar.data,
                                MagicEnd, LittleEndianPutUint64(BLen(ops.node.data))>>),
                    ![out.path].mode = 493],
          header |-> header, payload |-> tar.data, out |-> out.path]))))))))))

\* Create, from the file system f at time now: the error returned, the file
\* system left behind, and the header and compressed data it built
Create(f, opts0, now) ==
  Let(IF opts0.Compression = <<>>
      THEN [opts0 EXCEPT !.Compression = CompressionGzip] ELSE opts0, LAMBDA opts :
  Let(validateCreateInputs(f, opts), LAMBDA verr :
  Let(Open(f, Join(opts.BundleDir, requiredFiles[1])), LAMBDA mfile :
  Let(ManifestFromJSON(mfile.node.data), LAMBDA mf :
  Let(createCompressedTar(f, opts.BundleDir, opts.Compression), LAMBDA tar :
  Let([NewHeader EXCEPT !.Compression = opts.Compression,
                        !.BundleSize = tar.size,
                        !.BundleChecksum = calculateChecksum(tar.data),
                        !.Manifest = <<mf.m>>,
                        !.OpsVersion = opts.OpsVersion,
                        !.CreatedAt = FormatTime(now)], LAMBDA header :
  Let(Validate(header), LAMBDA herr :
  Let(OpenTrunc(f, opts.OutputPath, 438), LAMBDA out :
  \* os.Open(opts.OpsBinary), opsFile.Stat() and io.Copy: all after os.Create
  Let(Open(out.fs, opts.OpsBinary), LAMBDA ops :
  Let([err |-> NoErr, fs |-> f, header |-> header, payload |-> <<>>, out |-> <<>>],
      LAMBDA fail :
    IF IsErr(verr) THEN [fail EXCEPT !.err = Wrap("validation failed", verr)]
    ELSE IF ~mfile.ok \/ mfile.node.kind # "file"
    THEN [fail EXCEPT !.err = Err("failed to read manifest.json", <<>>)]
    ELSE IF ~mf.ok THEN [fail EXCEPT !.err = Err("failed to parse manifest.json", <<>>)]
    ELSE IF IsErr(tar.err)
    THEN [fail EXCEPT !.err = Wrap("failed to create compressed archive", tar.err)]
    ELSE IF IsErr(herr) THEN [fail EXCEPT !.err = Wrap("invalid header", herr)]
    ELSE IF ~out.ok THEN [fail EXCEPT !.err = Err("failed to create output file", <<>>)]
    ELSE IF ~ops.ok
    THEN [fail EXCEPT !.err = Err("failed to open ops binary", <<>>), !.fs = out.fs]
    ELSE [err |-> NoErr,
          fs |-> [out.fs EXCEPT
                    ![out.path].data =
                       CatAll(<<ops.node.data, MagicStart, WriteHeader(header), tar.data,
                                MagicEnd, LittleEndianPutUint64(BLen(ops.node.data))>>),
                    ![out.path].mode = 493],
          header |-> header, payload |-> tar.data, out |-> out.path]))))))))))

\* a detection that reports a file shorter than the footer as an error
DetectShortIsError(f, path) ==
  Let(Open(f, path), LAMBDA file :
  Let(BLen(file.node.data), LAMBDA fileSize :
  Let(LittleEndianInt64(Expand(Sub(file.node.data, fileSize - FooterSize, FooterSize))),
      LAMBDA offset :
  Let(ReadFull(file.node.data, offset, MagicStartLen), LAMBDA marker :
    IF ~file.ok THEN [err |-> Err("failed to open file", <<>>), IsSelfHost |-> FALSE, Offset |-> 0]
    ELSE IF file.node.kind = "dir" \/ fileSize < FooterSize
    THEN [err |-> Err("failed to read footer", <<>>), IsSelfHost |-> FALSE, Offset |-> 0]
    ELSE IF offset < 0 \/ offset >= fileSize - FooterSize
            \/ ~marker.ok
            \/ Expand(marker.data) # MagicStart
    THEN [err |-> NoErr, IsSelfHost |-> FALSE, Offset |-> 0]
    ELSE [err |-> NoErr, IsSelfHost |-> TRUE, Offset |-> offset]))))

\* DetectSelfHostModeFromFile
DetectSelfHostModeFromFile(f, path) ==
  Let(Open(f, path), LAMBDA file :
  Let(BLen(file.node.data), LAMBDA fileSize :
  Let(LittleEndianInt64(Expand(Sub(file.node.data, fileSize - FooterSize, FooterSize))),
      LAMBDA offset :
  Let(ReadFull(file.node.data, offset, MagicStartLen), LAMBDA marker :
    IF ~file.ok THEN [err |-> Err("failed to open file", <<>>), IsSelfHost |-> FALSE, Offset |-> 0]
    ELSE IF file.node.kind = "dir"
    THEN [err |-> Err("failed to read footer", <<>>), IsSelfHost |-> FALSE, Offset |-> 0]
    ELSE IF fileSize < FooterSize
            \/ offset < 0 \/ offset >= fileSize - FooterSize
            \/ ~marker.ok
            \/ Expand(marker.data) # MagicStart
    THEN [err |-> NoErr, IsSelfHost |-> FALSE, Offset |-> 0]
    ELSE [err |-> NoErr, IsSelfHost |-> TRUE, Offset |-> offset]))))

\* ReadHeaderFromExecutable (path not empty)
ReadHeaderFromExecutable(f, path) ==
  Let(DetectSelfHostModeFromFile(f, path), LAMBDA result :
    IF IsErr(result.err) THEN [err |-> result.err, header |-> ZeroHeader]
    ELSE IF ~result.IsSelfHost
    THEN [err |-> Err("file is not a self-host executable", <<>>), header |-> ZeroHeader]
    ELSE Let(ReadHeader(Stat(f, path).node.data, result.Offset + MagicStartLen), LAMBDA rh :
           [err |-> rh.err, header |-> rh.header]))

\* a reader that goes on to the header whatever detection said
ReadBundleUndetected(f, path, headerMsg) ==
  Let(DetectSelfHostModeFromFile(f, path), LAMBDA result :
  Let(Stat(f, path).node.data, LAMBDA data :
  Let(ReadHeader(data, result.Offset + MagicStartLen), LAMBDA rh :
  Let(BLen(data) - rh.pos - MagicEndLen - FooterSize, LAMBDA compressedDataSize :
  Let(ReadFull(data, rh.pos, compressedDataSize), LAMBDA compressedData :
  Let([err |-> NoErr, panic |-> FALSE, header |-> ZeroHeader, compressedData |-> <<>>],
      LAMBDA none :
    IF IsErr(result.err) THEN [none EXCEPT !.err = result.err]
    ELSE IF IsErr(rh.err) THEN [none EXCEPT !.err = Wrap(headerMsg, rh.err)]
    ELSE IF compressedDataSize < 0 THEN [none EXCEPT !.panic = TRUE]
    ELSE IF ~compressedData.ok
    THEN [none EXCEPT !.err = Err("failed to read compressed data", <<>>)]
    ELSE [err |-> NoErr, panic |-> FALSE, header |-> rh.header,
          compressedData |-> compressedData.data]))))))

\* a reader that wants the end marker after the compressed data
ReadBundleToEndMarker(f, path, headerMsg) ==
  Let(DetectSelfHostModeFromFile(f, path), LAMBDA result :
  Let(Stat(f, path).node.data, LAMBDA data :
  Let(ReadHeader(data, result.Offset + MagicStartLen), LAMBDA rh :
  Let(BLen(data) - rh.pos - MagicEndLen - FooterSize, LAMBDA compressedDataSize :
  Let(ReadFull(data, rh.pos, compressedDataSize), LAMBDA compressedData :
  Let(ReadFull(data, rh.pos + compressedDataSize, MagicEndLen), LAMBDA marker :
  Let([err |-> NoErr, panic |-> FALSE, header |-> ZeroHeader, compressedData |-> <<>>],
      LAMBDA none :
    IF IsErr(result.err) THEN [none EXCEPT !.err = result.err]
    ELSE IF ~result.IsSelfHost
    THEN [none EXCEPT !.err = Err("file does not contain an embedded bundle", <<>>)]
    ELSE IF IsErr(rh.err) THEN [none EXCEPT !.err = Wrap(headerMsg, rh.err)]
    ELSE IF compressedDataSize < 0 THEN [none EXCEPT !.panic = TRUE]
    ELSE IF ~compressedData.ok
    THEN [none EXCEPT !.err = Err("failed to read compressed data", <<>>)]
    ELSE IF ~marker.ok \/ Expand(marker.data) # MagicEnd
    THEN [none EXCEPT !.err = Err("failed to read end marker", <<>>)]
    ELSE [err |-> NoErr, panic |-> FALSE, header |-> rh.header,
          compressedData |-> compressedData.data])))))))

\* the part Verify and Extract share: detect, read the header, read the
\* compressed data.  panic: make([]byte, n) with n < 0.
ReadBundle(f, path, headerMsg) ==
  Let(DetectSelfHostModeFromFile(f, path), LAMBDA result :
  Let(Stat(f, path).node.data, LAMBDA data :
  Let(ReadHeader(data, result.Offset + MagicStartLen), LAMBDA rh :
  Let(BLen(data) - rh.pos - MagicEndLen - FooterSize, LAMBDA compressedDataSize :
  Let(ReadFull(data, rh.pos, compressedDataSize), LAMBDA compressedData :
  Let([err |-> NoErr, panic |-> FALSE, header |-> ZeroHeader, compressedData |-> <<>>],
      LAMBDA none :
    IF IsErr(result.err) THEN [none EXCEPT !.err = result.err]
    ELSE IF ~result.IsSelfHost
    THEN [none EXCEPT !.err = Err("file does not contain an embedded bundle", <<>>)]
    ELSE IF IsErr(rh.err) THEN [none EXCEPT !.err = Wrap(headerMsg, rh.err)]
    ELSE IF compressedDataSize < 0 THEN [none EXCEPT !.panic = TRUE]
    ELSE IF ~compressedData.ok
    THEN [none EXCEPT !.err = Err("failed to read compressed data", <<>>)]
    ELSE [err |-> NoErr, panic |-> FALSE, header |-> rh.header,
          compressedData |-> compressedData.data]))))))

\* Verify (path not empty)
Verify(f, path) ==
  Let(ReadBundle(f, path, "failed to read header"), LAMBDA b :
  Let(calculateChecksum(b.compressedData), LAMBDA actualChecksum :
    IF IsErr(b.err) \/ b.panic
    THEN [err |-> b.err, panic |-> b.panic, Valid |-> FALSE,
          ExpectedChecksum |-> <<>>, ActualChecksum |-> <<>>]
    ELSE [err |-> NoErr, panic |-> FALSE,
          Valid |-> actualChecksum = b.header.BundleChecksum,
          ExpectedChecksum |-> b.header.BundleChecksum,
          ActualChecksum |-> actualChecksum]))

\* an extraction that unpacks first and compares the checksums afterwards
ExtractThenVerify(f, opts) ==
  Let(ReadBundle(f, opts.ExecutablePath, "failed to read header"), LAMBDA b :
  Let(calculateChecksum(b.compressedData), LAMBDA calculatedChecksum :
  Let(MkdirAll(f, opts.OutputDir, 493), LAMBDA dir :
  Let(extractCompressedTar(dir.fs, b.compressedData, opts.OutputDir, b.header.Compression),
      LAMBDA x :
  Let([err |-> b.err, panic |-> b.panic, header |-> ZeroHeader, fs |-> f], LAMBDA none :
    IF IsErr(b.err) \/ b.panic THEN none
    ELSE IF ~dir.ok
    THEN [none EXCEPT !.err = Err("failed to create output directory", <<>>), !.fs = dir.fs]
    ELSE IF IsErr(x.err)
    THEN [none EXCEPT !.err = Wrap("failed to extract bundle", x.err), !.fs = x.fs]
    ELSE IF ~opts.SkipVerify /\ calculatedChecksum # b.header.BundleChecksum
    THEN [none EXCEPT !.err = Err("checksum mismatch",
                                   <<b.header.BundleChecksum, calculatedChecksum>>),
                      !.fs = x.fs]
    ELSE [err |-> NoErr, panic |-> FALSE, header |-> b.header, fs |-> x.fs])))))

\* Extract (ExecutablePath not empty)
Extract(f, opts) ==
  Let(ReadBundle(f, opts.ExecutablePath, "failed to read header"), LAMBDA b :
  Let(calculateChecksum(b.compressedData), LAMBDA calculatedChecksum :
  Let(MkdirAll(f, opts.OutputDir, 493), LAMBDA dir :
  Let(extractCompressedTar(dir.fs, b.compressedData, opts.OutputDir, b.header.Compression),
      LAMBDA x :
  Let([err |-> b.err, panic |-> b.panic, header |-> ZeroHeader, fs |-> f], LAMBDA none :
    IF IsErr(b.err) \/ b.panic THEN none
    ELSE IF ~opts.SkipVerify /\ calculatedChecksum # b.header.BundleChecksum
    THEN [none EXCEPT !.err = Err("checksum mismatch",
                                   <<b.header.BundleChecksum, calculatedChecksum>>)]
    ELSE IF ~dir.ok
    THEN [none EXCEPT !.err = Err("failed to create output directory", <<>>), !.fs = dir.fs]
    ELSE IF IsErr(x.err)
    THEN [none EXCEPT !.err = Wrap("failed to extract bundle", x.err), !.fs = x.fs]
    ELSE [err |-> NoErr, panic |-> FALSE, header |-> b.header, fs |-> x.fs])))))

\* a getHostPlatform without the platform map: the raw "<os>-<arch>" always
getHostPlatformRaw(goos, goarch) == goos \o <<45>> \o goarch

\* getHostPlatform, for a build with runtime.GOOS = goos and runtime.GOARCH =
\* goarch: the platformMap entry of "<os>-<arch>", or that key itself
getHostPlatform(goos, goarch) ==
  Let(goos \o <<45>> \o goarch, LAMBDA key :
    CASE key = <<108, 105, 110, 117, 120, 45, 97, 109, 100, 54, 52>> ->        \* linux-amd64
           <<108, 105, 110, 117, 120, 45, 120, 54, 52>>                        \* linux-x64
      [] key = <<108, 105, 110, 117, 120, 45, 97, 114, 109, 54, 52>> ->        \* linux-arm64
           <<108, 105, 110, 117, 120, 45, 97, 114, 109, 54, 52>>
      [] key = <<100, 97, 114, 119, 105, 110, 45, 97, 109, 100, 54, 52>> ->    \* darwin-amd64
           <<100, 97, 114, 119, 105, 110, 45, 120, 54, 52>>                    \* darwin-x64
      [] key = <<100, 97, 114, 119, 105, 110, 45, 97, 114, 109, 54, 52>> ->    \* darwin-arm64
           <<100, 97, 114, 119, 105, 110, 45, 97, 114, 109, 54, 52>>
      [] OTHER -> key)

\* CheckPlatformCompatibility
CheckPlatformCompatibility(bundlePlatform, goos, goarch) ==
  Let(getHostPlatform(goos, goarch), LAMBDA hostPlatform :
    IF bundlePlatform # hostPlatform
    THEN Err("platform mismatch", <<bundlePlatform, hostPlatform>>)
    ELSE NoErr)

-----------------------------------------------------------------------------
(* The container life cycle: a machine with a bundle directory, an ops       *)
(* binary, a file that is no container and a container whose header carries  *)
(* another format tag.  A run is a scenario: containers are created one      *)
(* after another, the last one may be damaged by the environment, and then   *)
(* one operation reads a file.                                               *)

MaxClock == 2

BundleDirPath == <<47, 98>>
OpsBinaryPath == <<47, 111, 112, 115>>
NewOutputPath == <<47, 111, 117, 116>>
PlainPath == <<47, 112, 108, 97, 105, 110>>
ForgedPath == <<47, 102, 111, 114, 103, 101, 100>>
MissingPath == <<47, 110, 111, 110, 101>>
ExtractDir == <<47, 101>>

\* {"name":"a","version":"1","apps":["x"],"platform":"linux-x64","createdAt":"t"}
ManifestJSON ==
  <<123, 34, 110, 97, 109, 101, 34, 58, 34, 97, 34, 44, 34, 118, 101, 114,
  115, 105, 111, 110, 34, 58, 34, 49, 34, 44, 34, 97, 112, 112, 115, 34, 58,
  91, 34, 120, 34, 93, 44, 34, 112, 108, 97, 116, 102, 111, 114, 109, 34,
  58, 34, 108, 105, 110, 117, 120, 45, 120, 54, 52, 34, 44, 34, 99, 114,
  101, 97, 116, 101, 100, 65, 116, 34, 58, 34, 116, 34, 125>>

Platform_linux_x64 == <<108, 105, 110, 117, 120, 45, 120, 54, 52>>
OpsVersionShort == <<49, 46, 48>>
\* an ops version of maxHeaderSize bytes
OpsVersionLong == Run(maxHeaderSize)
OtherFormat == <<111, 116, 104, 101, 114, 45, 118, 48>>

OpsBinaryData == <<127, 69, 76, 70>>
PlainData == <<35, 33, 47, 98, 105, 110, 47, 115, 104, 10, 58, 10>>

BundleFS ==
  [q \in {<<>>, Slash, BundleDirPath, OpsBinaryPath}
          \cup {Under(BundleDirPath, requiredFiles[i]) : i \in 1..Len(requiredFiles)} |->
     CASE q = <<>> -> CredNode(1000)
       [] q = OpsBinaryPath -> FileNode(OpsBinaryData, 493)
       [] q = Under(BundleDirPath, requiredFiles[1]) -> FileNode(ManifestJSON, 420)
       [] q = Under(BundleDirPath, requiredFiles[2]) -> FileNode(<<1, 2>>, 493)
       [] q = Under(BundleDirPath, requiredFiles[3]) -> FileNode(<<3>>, 420)
       [] q = Under(BundleDirPath, requiredFiles[4]) -> FileNode(<<4>>, 384)
       [] OTHER -> DirNode(493)]

\* a file laid out as a container, with any header
Container(host, h, payload) ==
  CatAll(<<host, MagicStart, WriteHeader(h), payload, MagicEnd,
           LittleEndianPutUint64(BLen(host))>>)

ForgedContainer ==
  Let(createCompressedTar(BundleFS, BundleDirPath, CompressionGzip), LAMBDA tar :
    Container(OpsBinaryData,
              [NewHeader EXCEPT !.Format = OtherFormat,
                                !.Compression = CompressionGzip,
                                !.BundleSize = tar.size,
                                !.BundleChecksum = calculateChecksum(tar.data),
                                !.Manifest = <<ZeroManifest>>,
                                !.CreatedAt = FormatTime(0)],
              tar.data))

InitFS ==
  Put(Put(BundleFS, PlainPath, FileNode(PlainData, 420)),
      ForgedPath, FileNode(ForgedContainer, 493))

CreateOptions(o, c, v) ==
  [BundleDir |-> BundleDirPath, OpsBinary |-> OpsBinaryPath, OutputPath |-> o,
   Platform |-> Platform_linux_x64, Compression |-> c, OpsVersion |-> v]

ReadPaths == {NewOutputPath, OpsBinaryPath, PlainPath, ForgedPath, BundleDirPath, MissingPath}

NoLast == [op |-> "none", path |-> <<>>, err |-> NoErr, res |-> <<>>]

Init ==
  /\ fs = InitFS
  /\ clock = 1
  /\ last = NoLast
  /\ prev = fs
  /\ made = <<>>
  /\ tampered = FALSE

\* a call of Create at time clock.  made remembers the last container created:
\* the options, the header and payload built, the ops binary's content when
\* Create was called and the real path of the output.
DoCreate(opts) ==
  /\ last.op \in {"none", "Create"}
  /\ clock <= MaxClock
  /\ \E r \in {Create(fs, opts, clock)} :
        /\ fs' = r.fs
        /\ last' = [op |-> "Create", path |-> opts.OutputPath, err |-> r.err,
                    res |-> [opts |-> opts]]
        /\ made' = IF ~IsErr(r.err)
                   THEN <<[opts |-> opts, header |-> r.header, payload |-> r.payload,
                           host |-> Open(fs, opts.OpsBinary).node.data, out |-> r.out]>>
                   ELSE IF r.fs = fs THEN made ELSE <<>>
        /\ tampered' = IF r.fs = fs THEN tampered ELSE FALSE
  /\ prev' = fs
  /\ clock' = clock + 1

DoDetect(path) ==
  /\ last.op \in {"none", "Create", "Corrupt", "Plant"}
  /\ \E r \in {DetectSelfHostModeFromFile(fs, path)} :
        last' = [op |-> "Detect", path |-> path, err |-> r.err, res |-> r]
  /\ prev' = fs
  /\ UNCHANGED <<fs, clock, made, tampered>>

DoReadHeader(path) ==
  /\ last.op \in {"none", "Create", "Corrupt", "Plant"}
  /\ \E r \in {ReadHeaderFromExecutable(fs, path)} :
        last' = [op |-> "ReadHeader", path |-> path, err |-> r.err, res |-> r]
  /\ prev' = fs
  /\ UNCHANGED <<fs, clock, made, tampered>>

DoVerify(path) ==
  /\ last.op \in {"none", "Create", "Corrupt", "Plant"}
  /\ \E r \in {Verify(fs, path)} :
        last' = [op |-> "Verify", path |-> path, err |-> r.err, res |-> r]
  /\ prev' = fs
  /\ UNCHANGED <<fs, clock, made, tampered>>

\* a call of Extract into a directory that does not exist yet
DoExtract(path, skipVerify) ==
  /\ last.op \in {"none", "Create", "Corrupt", "Plant"}
  /\ ExtractDir \notin DOMAIN fs
  /\ \E r \in {Extract(fs, [ExecutablePath |-> path, OutputDir |-> ExtractDir,
                             SkipVerify |-> skipVerify])} :
        /\ fs' = r.fs
        /\ last' = [op |-> "Extract", path |-> path, err |-> r.err,
                    res |-> [skipVerify |-> skipVerify, panic |-> r.panic,
                             header |-> r.header]]
  /\ prev' = fs
  /\ UNCHANGED <<clock, made, tampered>>

\* one bit of a byte flipped
FlipBit(v, bit) == IF (v \div bit) % 2 = 1 THEN v - bit ELSE v + bit

\* the environment changes one byte of the payload region of the container
\* last created
Corrupt(off, bit) ==
  /\ last.op \in {"none", "Create"}
  /\ made # <<>>
  /\ ~tampered
  /\ off < BLen(made[1].payload)
  /\ LET q == made[1].out
         \* the payload ends MagicEndLen + FooterSize bytes before the end
         at == BLen(fs[q].data) - FooterSize - MagicEndLen - BLen(made[1].payload) + off
     IN /\ fs' = [fs EXCEPT ![q].data = SetByte(@, at, FlipBit(ByteAt(@, at), bit))]
        /\ last' = [op |-> "Corrupt", path |-> q, err |-> NoErr, res |-> [at |-> at]]
  /\ prev' = fs
  /\ tampered' = TRUE
  /\ UNCHANGED <<clock, made>>

\* the offsets in the payload, and the bits there, that Corrupt changes
\* the files the environment writes at PlainPath, by content and mode:
\* files shorter than a footer, footers that point nowhere, start markers
\* cut short, damaged or misplaced, and a start marker with nothing after it
PlantInputs ==
  {[data |-> d, mode |-> 420] :
     d \in {<<>>, <<1, 2, 3, 4>>, <<0, 0, 0, 0, 0, 0, 0>>,
            LittleEndianPutUint64(0),
            Cat(MagicStart, LittleEndianPutUint64(0)),
            Cat(OpsBinaryData \o MagicStart, LittleEndianPutUint64(4)),
            Cat(OpsBinaryData \o MagicStart, LittleEndianPutUint64(3)),
            Cat(OpsBinaryData \o MagicStart, LittleEndianPutUint64(24)),
            Cat(OpsBinaryData \o MagicStart \o <<9>>, LittleEndianPutUint64(24)),
            Cat(OpsBinaryData \o MagicStart, <<4, 0, 0, 0, 0, 0, 0, 128>>),
            Cat(OpsBinaryData \o MagicStart, <<4, 0, 0, 0, 1, 0, 0, 0>>),
            Cat(OpsBinaryData \o SubSeq(MagicStart, 1, 19), LittleEndianPutUint64(4)),
            Cat(OpsBinaryData \o SubSeq(MagicStart, 1, 10), LittleEndianPutUint64(4)),
            Cat(OpsBinaryData \o [MagicStart EXCEPT ![1] = 99], LittleEndianPutUint64(4)),
            Cat(OpsBinaryData \o [MagicStart EXCEPT ![12] = 108], LittleEndianPutUint64(4)),
            Cat(OpsBinaryData \o [MagicStart EXCEPT ![20] = 32], LittleEndianPutUint64(4))}}
  \cup {[data |-> Cat(OpsBinaryData \o MagicStart, LittleEndianPutUint64(4)), mode |-> 0]}
  \* containers cut short after the header block: 8, 25 and 26 bytes after it
  \cup {[data |-> CatAll(<<OpsBinaryData, MagicStart,
                           WriteHeader([NewHeader EXCEPT
                                          !.BundleSize = 1,
                                          !.BundleChecksum = calculateChecksum(<<>>),
                                          !.Manifest = <<ZeroManifest>>,
                                          !.CreatedAt = FormatTime(0)]),
                           rest, LittleEndianPutUint64(4)>>),
          mode |-> 493] : rest \in {<<>>, SubSeq(MagicEnd, 2, MagicEndLen), MagicEnd}}

\* the environment replaces the file at PlainPath
Plant(file) ==
  /\ last.op = "none"
  /\ fs' = Put(fs, PlainPath, FileNode(file.data, file.mode))
  /\ last' = [op |-> "Plant", path |-> PlainPath, err |-> NoErr, res |-> <<>>]
  /\ prev' = fs
  /\ UNCHANGED <<clock, made, tampered>>

Next ==
  \/ \E opts \in {CreateOptions(o, <<>>, v) :
                    o \in {NewOutputPath, OpsBinaryPath},
                    v \in {OpsVersionShort, OpsVersionLong}}
                 \cup {CreateOptions(NewOutputPath, CompressionZstd, OpsVersionShort)} :
       DoCreate(opts)
  \/ \E file \in PlantInputs : Plant(file)
  \/ \E path \in ReadPaths : DoDetect(path)
  \/ \E path \in ReadPaths : DoReadHeader(path)
  \/ \E path \in ReadPaths : DoVerify(path)
  \/ \E path \in ReadPaths, skipVerify \in BOOLEAN : DoExtract(path, skipVerify)
  \/ \E c \in IF made = <<>> THEN {}
               ELSE {<<0, 1>>, <<0, 128>>, <<BLen(made[1].payload) \div 2, 1>>,
                     <<BLen(made[1].payload) - 1, 128>>} :
       Corrupt(c[1], c[2])

Spec == Init /\ [][Next]_vars

-----------------------------------------------------------------------------
(* Properties of the container life cycle *)

\* C1 (self-consistency): after every Create that returned nil, detection on
\* the output says container, Verify says valid and returns no error, and
\* ReadHeaderFromExecutable returns a header that Validate accepts.
C1_SelfConsistency ==
  (last.op = "Create" /\ ~IsErr(last.err)) =>
    /\ LET d == DetectSelfHostModeFromFile(fs, last.path)
       IN ~IsErr(d.err) /\ d.IsSelfHost
    /\ LET v == Verify(fs, last.path)
       IN ~IsErr(v.err) /\ ~v.panic /\ v.Valid
    /\ LET rh == ReadHeaderFromExecutable(fs, last.path)
       IN ~IsErr(rh.err) /\ Validate(rh.header) = NoErr

\* Create has accepted an ops version of maxHeaderSize bytes, and Verify
\* refuses the header of the container it wrote
C1_Witness ==
  /\ last.op = "Create" /\ ~IsErr(last.err)
  /\ last.res.opts.OpsVersion = OpsVersionLong
  /\ Verify(fs, last.path).err.chain =
       <<"failed to read header", "header size exceeds maximum allowed size">>

\* C2 (layout): after every Create that returned nil, for the n bytes the
\* host executable had when Create was called, the h bytes of the encoded
\* header and the p bytes of the payload, the output is the host bytes, the
\* start marker, h in 4 bytes big-endian, the header, the payload, the end
\* marker and n in 8 bytes little-endian, n+20+4+h+p+18+8 bytes in all, and
\* detection reports Offset = n.
C2_Layout ==
  (last.op = "Create" /\ ~IsErr(last.err)) =>
    LET m == made[1]
        n == BLen(m.host)
        encoded == ToJSON(m.header)
        h == BLen(encoded)
        p == BLen(m.payload)
        file == fs[m.out].data
        d == DetectSelfHostModeFromFile(fs, last.path)
    IN /\ file = CatAll(<<m.host, MagicStart, BigEndianPutUint32(h), encoded, m.payload,
                          MagicEnd, LittleEndianPutUint64(n)>>)
       /\ BLen(file) = n + 20 + 4 + h + p + 18 + 8
       /\ d.IsSelfHost /\ d.Offset = n

\* Create has written its output over the 4-byte ops binary, and the
\* container starts at offset 0
C2_Witness ==
  /\ last.op = "Create" /\ ~IsErr(last.err)
  /\ last.path = OpsBinaryPath
  /\ BLen(made[1].host) = 4
  /\ DetectSelfHostModeFromFile(fs, last.path).IsSelfHost
  /\ DetectSelfHostModeFromFile(fs, last.path).Offset = 0

\* C3 (detection, exactly): on a readable regular file of s bytes, detection
\* returns no error; it says container with Offset o exactly when s >= 8, the
\* last 8 bytes are o in little-endian with 0 <= o < s - 8, 20 bytes can be
\* read at o and they are the start marker; otherwise it says not a container.
C3_DetectExact ==
  (last.op = "Detect" /\ Open(prev, last.path).ok /\ Open(prev, last.path).node.kind = "file") =>
    LET data == Open(prev, last.path).node.data
        s == BLen(data)
        IsContainerAt(o) ==
          /\ Expand(Sub(data, s - 8, 8)) = LittleEndianPutUint64(o)
          /\ o + 20 <= s
          /\ Expand(Sub(data, o, 20)) = MagicStart
    IN /\ last.err = NoErr
       /\ last.res.IsSelfHost =>
            s >= 8 /\ last.res.Offset \in 0..(s - 9) /\ IsContainerAt(last.res.Offset)
       /\ ~last.res.IsSelfHost => ~(s >= 8 /\ \E o \in 0..(s - 9) : IsContainerAt(o))

\* a file made of a start marker and a footer alone is detected at offset 4
C3_Witness ==
  /\ last.op = "Detect" /\ last.path = PlainPath
  /\ fs[PlainPath].data = Cat(OpsBinaryData \o MagicStart, LittleEndianPutUint64(4))
  /\ last.res.IsSelfHost /\ last.res.Offset = 4

\* C4 (detection is total and has no side effect): detection on an existing
\* readable regular file, container or not, returns a result and no error,
\* and leaves every file as it was.
C4_DetectTotal ==
  (last.op = "Detect" /\ Open(prev, last.path).ok /\ Open(prev, last.path).node.kind = "file") =>
    /\ last.err = NoErr
    /\ last.res.IsSelfHost \in BOOLEAN
    /\ fs = prev

\* detection has run on a 4-byte file
C4_Witness ==
  /\ last.op = "Detect" /\ last.path = PlainPath
  /\ BLen(fs[PlainPath].data) = 4
  /\ last.err = NoErr /\ ~last.res.IsSelfHost

\* C5 (corruption sensitivity): after any byte of the payload region of a
\* container made by Create has been changed, Verify returns no error, Valid
\* false and an actual checksum other than the expected one, the expected
\* one being what it was before the change, and detection still says
\* container at the same Offset.
C5_CorruptionSensitivity ==
  (last.op = "Corrupt") =>
    LET v == Verify(fs, last.path)
        before == Verify(prev, last.path)
        d == DetectSelfHostModeFromFile(fs, last.path)
    IN /\ ~IsErr(v.err) /\ ~v.panic
       /\ ~v.Valid
       /\ v.ActualChecksum # v.ExpectedChecksum
       /\ ~IsErr(before.err) /\ v.ExpectedChecksum = before.ExpectedChecksum
       /\ d.IsSelfHost
       /\ d = DetectSelfHostModeFromFile(prev, last.path)

\* a payload byte of a container with an oversized header has been changed,
\* and Verify returns an error
C5_Witness ==
  /\ last.op = "Corrupt"
  /\ made[1].opts.OpsVersion = OpsVersionLong
  /\ IsErr(Verify(fs, last.path).err)

\* C6 (verification precedes writing): when Extract is called without
\* SkipVerify on a container whose payload's checksum is not the header's
\* BundleChecksum, it returns the checksum-mismatch error with the expected
\* and the actual checksum, and the output directory does not exist and
\* nothing else has been written.
C6_VerifyBeforeWrite ==
  (last.op = "Extract" /\ ~last.res.skipVerify) =>
    LET b == ReadBundle(prev, last.path, "failed to read header")
        actual == calculateChecksum(b.compressedData)
    IN (~IsErr(b.err) /\ ~b.panic /\ actual # b.header.BundleChecksum) =>
         /\ last.err = Err("checksum mismatch", <<b.header.BundleChecksum, actual>>)
         /\ ExtractDir \notin DOMAIN fs
         /\ fs = prev

\* Extract has refused a container whose payload was changed
C6_Witness ==
  /\ last.op = "Extract" /\ ~last.res.skipVerify /\ tampered
  /\ last.err.chain = <<"checksum mismatch">>
  /\ Len(last.err.args) = 2 /\ last.err.args[1] # last.err.args[2]

\* C9 (the format tag is enforced on reading): whenever
\* ReadHeaderFromExecutable or Extract returns a header and no error, the
\* header's Format is "selfhost-v1".
C9_FormatEnforced ==
  (\/ last.op = "ReadHeader" /\ ~IsErr(last.err)
   \/ last.op = "Extract" /\ ~IsErr(last.err) /\ ~last.res.panic) =>
    last.res.header.Format = HeaderFormat

\* ReadHeaderFromExecutable has returned the header of the forged container
C9_Witness ==
  /\ last.op = "ReadHeader" /\ last.path = ForgedPath
  /\ ~IsErr(last.err)
  /\ last.res.header.Format = OtherFormat

\* C10 (not a container): on a file for which detection returns
\* IsSelfHost = false and no error, ReadHeaderFromExecutable, Verify and
\* Extract return an error saying that the file holds no bundle, Extract
\* creates nothing, and detection itself has returned no error.
C10_NotSelfHost ==
  LET d == DetectSelfHostModeFromFile(prev, last.path)
  IN (last.op \in {"Detect", "ReadHeader", "Verify", "Extract"}
        /\ ~IsErr(d.err) /\ ~d.IsSelfHost) =>
       /\ last.op = "Detect" => last.err = NoErr /\ ~last.res.IsSelfHost
       /\ last.op = "ReadHeader" =>
            last.err = Err("file is not a self-host executable", <<>>)
       /\ last.op = "Verify" =>
            last.err = Err("file does not contain an embedded bundle", <<>>)
       /\ last.op = "Extract" =>
            /\ last.err = Err("file does not contain an embedded bundle", <<>>)
            /\ ExtractDir \notin DOMAIN fs
            /\ fs = prev

\* Extract has been called on a file whose footer points past its end
C10_Witness ==
  /\ last.op = "Extract" /\ last.path = PlainPath
  /\ fs[PlainPath].data = Cat(OpsBinaryData \o MagicStart, LittleEndianPutUint64(24))
  /\ IsErr(last.err)

-----------------------------------------------------------------------------
(* The payload transcoder on its own: the environment grows a directory tree *)
(* under SrcDir, createCompressedTar packs it, and extractCompressedTar       *)
(* unpacks the archive, or an archive somebody else has written, into the    *)
(* fresh directory DstDir.  The process runs as the superuser or as an       *)
(* ordinary user.                                                            *)

MaxGrow == 4

TarRootPath == <<47, 116>>          \* /t
SrcDir == <<47, 116, 47, 115>>      \* /t/s
DstDir == <<47, 116, 47, 111>>      \* /t/o

TarFS(euid) ==
  [q \in {<<>>, Slash, TarRootPath, SrcDir} |->
     IF q = <<>> THEN CredNode(euid) ELSE DirNode(493)]

\* what the environment may add to the tree, by path relative to SrcDir:
\* a, d/, d/f, d/e/, l -> a, d/l -> ../a, u; with varied permission bits
GrowInputs ==
  {[rel |-> <<97>>, node |-> FileNode(<<1>>, 420)],
   [rel |-> <<97>>, node |-> FileNode(<<>>, 292)],
   [rel |-> <<100>>, node |-> DirNode(493)],
   [rel |-> <<100>>, node |-> DirNode(365)],
   [rel |-> <<100, 47, 102>>, node |-> FileNode(<<2, 3>>, 493)],
   [rel |-> <<100, 47, 101>>, node |-> DirNode(448)],
   [rel |-> <<108>>, node |-> LinkNode(<<97>>)],
   [rel |-> <<100, 47, 108>>, node |-> LinkNode(<<46, 46, 47, 97>>)],
   [rel |-> <<117>>, node |-> FileNode(<<5>>, 0)]}

\* archives written by somebody else: entries named ../x, ok and ../../y,
\* ../o2/x, ../o2 (a directory), ../o2 (a symlink to /t), a/../../o/b, ..
ForgeInputs ==
  {<<TarEntry(TypeReg, <<46, 46, 47, 120>>, 420, <<>>, <<7>>)>>,
   <<TarEntry(TypeReg, <<111, 107>>, 420, <<>>, <<7>>),
     TarEntry(TypeReg, <<46, 46, 47, 46, 46, 47, 121>>, 420, <<>>, <<8>>)>>,
   <<TarEntry(TypeReg, <<46, 46, 47, 111, 50, 47, 120>>, 420, <<>>, <<7>>)>>,
   <<TarEntry(TypeDir, <<46, 46, 47, 111, 50>>, 493, <<>>, <<>>)>>,
   <<TarEntry(TypeSymlink, <<46, 46, 47, 111, 50>>, 511, TarRootPath, <<>>)>>,
   <<TarEntry(TypeReg, <<97, 47, 46, 46, 47, 46, 46, 47, 111, 47, 98>>, 420, <<>>, <<7>>)>>,
   <<TarEntry(TypeDir, <<46, 46>>, 493, <<>>, <<>>)>>,
   \* l -> /t, then the file l/x; l -> ../y, then the file l
   <<TarEntry(TypeSymlink, <<108>>, 511, TarRootPath, <<>>),
     TarEntry(TypeReg, <<108, 47, 120>>, 420, <<>>, <<7>>)>>,
   <<TarEntry(TypeSymlink, <<108>>, 511, <<46, 46, 47, 121>>, <<>>),
     TarEntry(TypeReg, <<108>>, 420, <<>>, <<8>>)>>}

InitTar ==
  /\ fs \in {TarFS(0), TarFS(1000)}
  /\ clock = 0
  /\ last = NoLast
  /\ prev = fs
  /\ made = <<>>
  /\ tampered = FALSE

\* the environment adds one node to the tree
Grow(g) ==
  /\ last.op \in {"none", "Grow"}
  /\ clock < MaxGrow
  /\ \E p \in {Under(SrcDir, g.rel)} :
        /\ p \notin DOMAIN fs
        /\ Dir(p) \in DOMAIN fs
        /\ fs[Dir(p)].kind = "dir"
        /\ fs' = Put(fs, p, g.node)
        /\ last' = [op |-> "Grow", path |-> p, err |-> NoErr, res |-> <<>>]
  /\ clock' = clock + 1
  /\ prev' = fs
  /\ UNCHANGED <<made, tampered>>

\* createCompressedTar(w, SrcDir, "gzip"); made holds the bytes written to w
Pack ==
  /\ last.op \in {"none", "Grow"}
  /\ \E r \in {createCompressedTar(fs, SrcDir, CompressionGzip)} :
        /\ made' = IF IsErr(r.err) THEN <<>> ELSE <<[payload |-> r.data]>>
        /\ last' = [op |-> "Pack", path |-> SrcDir, err |-> r.err, res |-> <<>>]
  /\ prev' = fs
  /\ UNCHANGED <<fs, clock, tampered>>

\* an archive arrives from elsewhere
Forge(entries) ==
  /\ last.op = "none"
  /\ made' = <<[payload |-> Gzip(TarBytes(entries))]>>
  /\ last' = [op |-> "Forge", path |-> DstDir, err |-> NoErr, res |-> <<>>]
  /\ prev' = fs
  /\ UNCHANGED <<fs, clock, tampered>>

\* os.MkdirAll(DstDir, 0755) and extractCompressedTar(data, DstDir, "gzip"),
\* as Extract calls them
Unpack ==
  /\ last.op \in {"Pack", "Forge"}
  /\ made # <<>>
  /\ \E x \in {extractCompressedTar(MkdirAll(fs, DstDir, 493).fs, made[1].payload,
                                      DstDir, CompressionGzip)} :
        /\ fs' = x.fs
        /\ last' = [op |-> "Unpack", path |-> DstDir, err |-> x.err,
                    res |-> [from |-> last.op]]
  /\ prev' = fs
  /\ UNCHANGED <<clock, made, tampered>>

NextTar ==
  \/ \E g \in GrowInputs : Grow(g)
  \/ Pack
  \/ \E entries \in ForgeInputs : Forge(entries)
  \/ Unpack

SpecTar == InitTar /\ [][NextTar]_vars

\* C7 (path traversal is rejected): when an archive holds an entry whose
\* name, joined with the destination directory and cleaned, is neither the
\* destination directory nor a path below it, extractCompressedTar returns
\* an error and nothing outside the destination directory has been created
\* or changed.
C7_TraversalRejected ==
  (last.op = "Unpack" /\ last.res.from = "Forge") =>
    LET entries == TarRead(Gunzip(made[1].payload).data, 0, <<>>).entries
        Below(q) == q = DstDir \/ HasPrefix(q, DstDir \o Slash)
    IN (\E i \in 1..Len(entries) : ~Below(Clean(Join(DstDir, entries[i].Name)))) =>
         /\ IsErr(last.err)
         /\ \A q \in DOMAIN fs : (q \notin DOMAIN prev \/ fs[q] # prev[q]) => Below(q)

\* the entry ../o2/x has been written beside DstDir, at /t/o2/x, without error
C7_Witness ==
  /\ last.op = "Unpack" /\ last.res.from = "Forge"
  /\ ~IsErr(last.err)
  /\ Under(TarRootPath, <<111, 50, 47, 120>>) \in DOMAIN fs
  /\ Under(TarRootPath, <<111, 50, 47, 120>>) \notin DOMAIN prev

\* C8 (round trip): unpacking the archive that createCompressedTar made of
\* the tree under SrcDir into the fresh directory DstDir succeeds, and
\* DstDir then holds the same relative paths as SrcDir, each of the same
\* kind, with the same content if a regular file and the same target if a
\* symlink.
C8_RoundTrip ==
  (last.op = "Unpack" /\ last.res.from = "Pack") =>
    LET RelPaths(d) == {SubSeq(q, Len(d) + 2, Len(q)) :
                          q \in {q \in DOMAIN fs : HasPrefix(q, d \o Slash)}}
    IN /\ ~IsErr(last.err)
       /\ RelPaths(DstDir) = RelPaths(SrcDir)
       /\ \A r \in RelPaths(SrcDir) :
            LET src == fs[Under(SrcDir, r)]
                dst == fs[Under(DstDir, r)]
            IN dst.kind = src.kind /\ dst.data = src.data /\ dst.target = src.target

\* an ordinary user has packed a tree whose directory d is read-only and not
\* empty, and unpacking the archive fails
C8_Witness ==
  /\ last.op = "Unpack" /\ last.res.from = "Pack"
  /\ fs[<<>>].mode # 0
  /\ Under(SrcDir, <<100>>) \in DOMAIN fs
  /\ fs[Under(SrcDir, <<100>>)].mode = 365
  /\ IsErr(last.err)

-----------------------------------------------------------------------------
(* The functions of the package one at a time: from the initial state, one  *)
(* call of one function on one input.                                       *)

\* a call of Header.Validate
DoValidate(h) ==
  /\ last.op = "none"
  /\ last' = [op |-> "Validate", path |-> <<>>, err |-> Validate(h), res |-> [h |-> h]]
  /\ prev' = fs
  /\ UNCHANGED <<fs, clock, made, tampered>>

\* WriteHeader(w, h) into an empty buffer, other bytes written after it, and
\* ReadHeader from the start of what was written
DoWriteRead(h, rest) ==
  /\ last.op = "none"
  /\ \E written \in {WriteHeader(h)} :
       \E r \in {ReadHeader(Cat(written, rest), 0)} :
          last' = [op |-> "WriteRead", path |-> <<>>, err |-> r.err,
                   res |-> [h |-> h, written |-> written, n |-> BLen(written),
                            header |-> r.header, pos |-> r.pos]]
  /\ prev' = fs
  /\ UNCHANGED <<fs, clock, made, tampered>>

\* ReadHeader from the start of a stream
DoReadStream(stream) ==
  /\ last.op = "none"
  /\ \E r \in {ReadHeader(stream, 0)} :
       last' = [op |-> "ReadStream", path |-> <<>>, err |-> r.err,
                res |-> [stream |-> stream, header |-> r.header, pos |-> r.pos]]
  /\ prev' = fs
  /\ UNCHANGED <<fs, clock, made, tampered>>

\* a call of CheckPlatformCompatibility in a build for goos and goarch
DoCheckPlatform(bundlePlatform, goos, goarch) ==
  /\ last.op = "none"
  /\ last' = [op |-> "CheckPlatform", path |-> <<>>,
              err |-> CheckPlatformCompatibility(bundlePlatform, goos, goarch),
              res |-> [p |-> bundlePlatform, goos |-> goos, goarch |-> goarch]]
  /\ prev' = fs
  /\ UNCHANGED <<fs, clock, made, tampered>>

NextFn ==
  \/ \E h \in [Version : {<<>>, HeaderVersion},
                Format : {<<>>, HeaderFormat, OtherFormat},
                Compression : {<<>>, CompressionGzip, CompressionZstd, <<108, 122, 52>>},
                BundleSize : {-1, 0, 1, 999999},
                BundleChecksum : {<<>>, calculateChecksum(<<>>)},
                Manifest : {<<>>, <<ZeroManifest>>},
                OpsVersion : {<<>>},
                CreatedAt : {<<>>, FormatTime(1)}] : DoValidate(h)
  \/ \E h \in [Version : {<<>>, HeaderVersion},
                Format : {HeaderFormat, OtherFormat},
                Compression : {CompressionGzip},
                BundleSize : {-1, 0, 999999},
                BundleChecksum : {calculateChecksum(<<>>)},
                Manifest : {<<>>, <<ZeroManifest>>,
                            <<[ZeroManifest EXCEPT !.Name = <<97>>, !.Apps = <<<<>>>>]>>,
                            <<[ZeroManifest EXCEPT !.Apps = <<<< <<120>>, <<47, 97>> >>>>,
                                                   !.Platform = Platform_linux_x64]>>},
                OpsVersion : {<<>>, OpsVersionShort, OpsVersionLong},
                CreatedAt : {<<>>, FormatTime(1)}],
        rest \in {<<>>, <<1, 2, 3>>} : DoWriteRead(h, rest)
  \* streams: shorter than a length prefix; declaring more than maxHeaderSize;
  \* declaring maxHeaderSize and holding that much, or less; declaring a few
  \* bytes and holding as many, more, or fewer; holding no JSON
  \/ \E stream \in
          {<<>>, <<0, 0, 0>>,
           <<255, 255, 255, 255, 123, 125>>, <<128, 0, 0, 0, 123, 125>>,
           <<1, 0, 0, 0, 123, 125>>,
           Cat(BigEndianPutUint32(maxHeaderSize + 1), <<123, 125>>),
           Cat(BigEndianPutUint32(maxHeaderSize + 1),
               CatAll(<<<<123, 34>>, Tag("opsVersion"), <<34, 58, 34>>,
                        Run(maxHeaderSize - 16), <<34, 125>>>>)),
           Cat(BigEndianPutUint32(maxHeaderSize),
               CatAll(<<<<123, 34>>, Tag("opsVersion"), <<34, 58, 34>>,
                        Run(maxHeaderSize - 17), <<34, 125>>>>)),
           Cat(BigEndianPutUint32(maxHeaderSize),
               CatAll(<<<<123, 34>>, Tag("opsVersion"), <<34, 58, 34>>,
                        Run(maxHeaderSize - 17), <<34, 125, 7, 7>>>>)),
           Cat(BigEndianPutUint32(maxHeaderSize),
               CatAll(<<<<123, 34>>, Tag("opsVersion"), <<34, 58, 34>>,
                        Run(maxHeaderSize - 18), <<34, 125>>>>)),
           Cat(BigEndianPutUint32(maxHeaderSize), <<123, 125>>),
           <<0, 0, 0, 0>>, <<0, 0, 0, 0, 123, 125>>,
           <<0, 0, 0, 2, 123, 125>>, <<0, 0, 0, 2, 123, 125, 9>>,
           <<0, 0, 0, 2, 123>>, <<0, 0, 0, 2>>, <<0, 0, 0, 3, 123, 125>>,
           <<0, 0, 0, 1, 123, 125>>, <<0, 0, 0, 2, 125, 123>>,
           <<0, 0, 0, 4, 110, 117, 108, 108>>, <<0, 0, 1, 0, 123, 125>>} :
        DoReadStream(stream)

  \* builds for linux, darwin, windows on amd64, arm64, 386, and the tokens
  \* "<os>-<arch>" with x64, amd64, arm64, 386, the empty token and "Linux-x64"
  \/ \E goos \in {<<108, 105, 110, 117, 120>>, <<100, 97, 114, 119, 105, 110>>,
                  <<119, 105, 110, 100, 111, 119, 115>>},
        goarch \in {<<97, 109, 100, 54, 52>>, <<97, 114, 109, 54, 52>>, <<51, 56, 54>>} :
       \E bundlePlatform \in
            {os \o <<45>> \o arch :
               os \in {<<108, 105, 110, 117, 120>>, <<100, 97, 114, 119, 105, 110>>,
                       <<119, 105, 110, 100, 111, 119, 115>>},
               arch \in {<<120, 54, 52>>, <<97, 109, 100, 54, 52>>, <<97, 114, 109, 54, 52>>,
                         <<51, 56, 54>>}}
            \cup {<<>>, <<76, 105, 110, 117, 120, 45, 120, 54, 52>>} :
          DoCheckPlatform(bundlePlatform, goos, goarch)

SpecFn == Init /\ [][NextFn]_vars

\* C11 (Header.Validate): Validate returns nil exactly when Version is not
\* empty, Format is "selfhost-v1", Compression is "gzip" or "zstd",
\* BundleSize > 0, BundleChecksum is not empty, Manifest is not nil and
\* CreatedAt is not empty; otherwise its error is the one for the first of
\* these conditions, in this order, that fails.
C11_ValidateExact ==
  (last.op = "Validate") =>
    LET h == last.res.h
        holds == <<h.Version # <<>>,
                   h.Format = <<115, 101, 108, 102, 104, 111, 115, 116, 45, 118, 49>>,
                   h.Compression \in {<<103, 122, 105, 112>>, <<122, 115, 116, 100>>},
                   h.BundleSize > 0,
                   h.BundleChecksum # <<>>,
                   h.Manifest # <<>>,
                   h.CreatedAt # <<>> >>
        names == <<"header version is required", "invalid header format",
                   "invalid compression", "bundle size must be positive",
                   "bundle checksum is required", "manifest is required",
                   "createdAt is required">>
        failed == {i \in 1..7 : ~holds[i]}
    IN IF failed = {} THEN last.err = NoErr
       ELSE last.err.chain = <<names[CHOOSE i \in failed : \A j \in failed : i <= j]>>

\* Validate has refused a header whose bundle size is 0 and whose createdAt
\* is empty, naming the bundle size
C11_Witness ==
  /\ last.op = "Validate"
  /\ last.res.h.Version # <<>> /\ last.res.h.Format = HeaderFormat
  /\ last.res.h.Compression = CompressionZstd
  /\ last.res.h.BundleSize = 0 /\ last.res.h.CreatedAt = <<>>
  /\ last.err.chain = <<"bundle size must be positive">>

\* C12 (framed header round trip): WriteHeader writes the length of the
\* encoded header in 4 bytes big-endian and then the encoded header, and
\* returns 4 plus that length; ReadHeader on what was written returns no
\* error and a header equal to the one written, and leaves the stream at the
\* first byte after the header block.
C12_FramedRoundTrip ==
  (last.op = "WriteRead") =>
    LET encoded == ToJSON(last.res.h)
    IN /\ last.res.written = Cat(BigEndianPutUint32(BLen(encoded)), encoded)
       /\ last.res.n = 4 + BLen(encoded)
       /\ last.err = NoErr
       /\ last.res.header = last.res.h
       /\ last.res.pos = last.res.n

\* WriteHeader has written a header with an ops version of maxHeaderSize
\* bytes, and ReadHeader refuses what was written
C12_Witness ==
  /\ last.op = "WriteRead"
  /\ last.res.h.OpsVersion = OpsVersionLong
  /\ last.res.n > 4 + maxHeaderSize
  /\ last.err.chain = <<"header size exceeds maximum allowed size">>

\* C13 (the ceiling of ReadHeader): a declared length above 1,048,576 is
\* refused with nothing read after the 4-byte prefix; for a declared length
\* L up to 1,048,576, ReadHeader reads exactly the L bytes after the prefix
\* and decodes them, and when fewer than L bytes are there it returns an
\* error and no header.
C13_Ceiling ==
  (last.op = "ReadStream" /\ BLen(last.res.stream) >= 4) =>
    LET s == last.res.stream
        q == Expand(Sub(s, 0, 4))
        above == q[1] > 0 \/ q[2] * 65536 + q[3] * 256 + q[4] > 1048576
        L == q[2] * 65536 + q[3] * 256 + q[4]
    IN IF above
       THEN /\ last.err.chain = <<"header size exceeds maximum allowed size">>
            /\ last.res.header = ZeroHeader
            /\ last.res.pos = 4
       ELSE IF BLen(s) - 4 < L
       THEN /\ last.err = Err("failed to read header data", <<>>)
            /\ last.res.header = ZeroHeader
       ELSE /\ last.res.pos = 4 + L
            /\ LET d == FromJSON(Sub(s, 4, L))
               IN IF d.ok THEN last.err = NoErr /\ last.res.header = d.h
                  ELSE last.err = Err("failed to parse header JSON", <<>>)

\* ReadHeader has read a header of exactly maxHeaderSize bytes
C13_Witness ==
  /\ last.op = "ReadStream"
  /\ last.err = NoErr
  /\ last.res.pos = 4 + maxHeaderSize
  /\ BLen(last.res.header.OpsVersion) = maxHeaderSize - 17

-----------------------------------------------------------------------------
(* Create on many machines: the bundle directory lacks required files, may   *)
(* not be searched, holds a manifest that cannot be read or parsed or that   *)
(* has other fields, holds nested directories and symbolic links; Create is  *)
(* called once, with options that break each precondition, and the output    *)
(* is read back.  The environment may also write a container whose header    *)
(* names another compression.                                                *)

InitCreate ==
  /\ fs \in
       LET rf(i) == Under(BundleDirPath, requiredFiles[i])
           Without(S) == [q \in DOMAIN InitFS \ {rf(i) : i \in S} |-> InitFS[q]]
           NoSearch(f) == [f EXCEPT ![BundleDirPath].mode = 384]
           Root(f) == [f EXCEPT ![<<>>] = CredNode(0)]
           \* {"name":"a","extra":"y"}
           OtherFields == <<123, 34, 110, 97, 109, 101, 34, 58, 34, 97, 34, 44, 34,
                            101, 120, 116, 114, 97, 34, 58, 34, 121, 34, 125>>
           \* {"createdAt":"t","platform":"p","apps":[],"version":"1","name":"a"}
           OtherOrder == <<123, 34>> \o Tag("createdAt") \o <<34, 58, 34, 116, 34, 44, 34>>
                         \o Tag("platform") \o <<34, 58, 34, 112, 34, 44, 34>>
                         \o Tag("apps") \o <<34, 58, 91, 93, 44, 34>>
                         \o Tag("version") \o <<34, 58, 34, 49, 34, 44, 34>>
                         \o Tag("name") \o <<34, 58, 34, 97, 34, 125>>
           \* an empty directory s, a directory d with a file f of 3 bytes and a
           \* run of PadByte, a link to the ops binary, a link to the directory d
           Tree == Put(Put(Put(Put(Put(Put(InitFS,
                     Under(BundleDirPath, <<115>>), DirNode(493)),
                     Under(BundleDirPath, <<100>>), DirNode(448)),
                     Under(BundleDirPath, <<100, 47, 102>>), FileNode(<<7, 7, 7>>, 420)),
                     Under(BundleDirPath, <<100, 47, 103>>), FileNode(Run(5), 420)),
                     Under(BundleDirPath, <<108>>), LinkNode(OpsBinaryPath)),
                     Under(BundleDirPath, <<109>>), LinkNode(<<100>>))
           \* manifest.json is a link to a file outside the bundle directory and
           \* the other required files are empty
           Hollow == Put(Put(Put(Put(Put(InitFS,
                       <<47, 109>>, FileNode(ManifestJSON, 420)),
                       rf(1), LinkNode(<<47, 109>>)),
                       rf(2), FileNode(<<>>, 493)),
                       rf(3), FileNode(<<>>, 420)),
                       rf(4), FileNode(<<>>, 384))
       IN {InitFS, Root(InitFS), Tree, Hollow}
          \cup {Without(S) : S \in {{1}, {2}, {3}, {4}, {1, 3}, {2, 4}, {3, 4}, {1, 2, 3, 4}}}
          \cup {NoSearch(InitFS), NoSearch(Without({1})), NoSearch(Without({3})),
                Root(NoSearch(Without({1})))}
          \cup {[InitFS EXCEPT ![rf(1)].mode = 0], [InitFS EXCEPT ![rf(2)].mode = 0],
                [InitFS EXCEPT ![rf(1)].data = <<123>>],
                [InitFS EXCEPT ![rf(1)].data = <<110, 117, 108, 108>>],
                [InitFS EXCEPT ![rf(1)].data = OtherFields],
                [InitFS EXCEPT ![rf(1)].data = OtherOrder],
                [InitFS EXCEPT ![Slash].mode = 365],
                \* an ops binary of 4 KiB; a backend of 4 KiB
                [InitFS EXCEPT ![OpsBinaryPath].data = Run(4096)],
                [InitFS EXCEPT ![rf(2)].data = Run(4096)],
                \* an ops binary that is a container followed by one more byte
                [InitFS EXCEPT ![OpsBinaryPath].data = Cat(ForgedContainer, <<0>>)]}
  /\ clock = MaxClock
  /\ last = NoLast
  /\ prev = fs
  /\ made = <<>>
  /\ tampered = FALSE

\* the environment overwrites the bytes from offset at on of the container
\* last created (os.ReadFile, a change of data[at..], os.WriteFile)
Overwrite(at, bytes) ==
  /\ last.op = "Create" /\ ~IsErr(last.err)
  /\ made # <<>>
  /\ ~tampered
  /\ at >= 0 /\ at + Len(bytes) <= BLen(fs[made[1].out].data)
  /\ fs' = [fs EXCEPT ![made[1].out].data =
              CatAll(<<Sub(@, 0, at), bytes, Sub(@, at + Len(bytes), BLen(@) - at - Len(bytes))>>)]
  /\ last' = [op |-> "Corrupt", path |-> made[1].out, err |-> NoErr, res |-> [at |-> at]]
  /\ prev' = fs
  /\ tampered' = TRUE
  /\ UNCHANGED <<clock, made>>

\* a call of Create whose k-th byte written to the output cannot be written
\* (disk full, file size limit): io.Copy or the Write of that step returns an
\* error after a short write, and Create returns leaving the output as it is
DoCreateCut(opts) ==
  /\ last.op = "none"
  /\ clock <= MaxClock
  /\ \E r \in {Create(fs, opts, clock)} :
        /\ ~IsErr(r.err)
        /\ \E all \in {r.fs[r.out].data} :
           \E n \in {<<BLen(all) - MagicStartLen - BLen(WriteHeader(r.header))
                         - BLen(r.payload) - MagicEndLen - FooterSize,
                       MagicStartLen, BLen(WriteHeader(r.header)), BLen(r.payload),
                       MagicEndLen, FooterSize>>} :
           \E step \in 1..6, d \in -1..9 :
           \E k \in {n[1] + (IF step > 1 THEN n[2] ELSE 0) + (IF step > 2 THEN n[3] ELSE 0)
                      + (IF step > 3 THEN n[4] ELSE 0) + (IF step > 4 THEN n[5] ELSE 0)
                      + (IF step > 5 THEN n[6] ELSE 0) + d} :
              /\ k >= 0 /\ k < BLen(all)
              /\ fs' = [OpenTrunc(fs, opts.OutputPath, 438).fs EXCEPT
                          ![r.out].data = Sub(all, 0, k)]
              /\ last' = [op |-> "Create", path |-> opts.OutputPath,
                          err |-> Err(IF k < n[1] THEN "failed to copy ops binary"
                                      ELSE IF k < n[1] + n[2]
                                      THEN "failed to write start marker"
                                      ELSE IF k < n[1] + n[2] + n[3]
                                      THEN "failed to write header"
                                      ELSE IF k < n[1] + n[2] + n[3] + n[4]
                                      THEN "failed to write compressed bundle"
                                      ELSE IF k < n[1] + n[2] + n[3] + n[4] + n[5]
                                      THEN "failed to write end marker"
                                      ELSE "failed to write footer", <<>>),
                          res |-> [opts |-> opts, cut |-> k]]
  /\ made' = <<>>
  /\ tampered' = FALSE
  /\ prev' = fs
  /\ clock' = clock + 1

NextCreate ==
  \* options that break the preconditions, several at a time
  \/ \E opts \in [BundleDir : {<<>>, BundleDirPath, MissingPath, PlainPath},
                  OpsBinary : {<<>>, OpsBinaryPath, MissingPath, BundleDirPath},
                  OutputPath : {<<>>, PlainPath},
                  Platform : {<<>>, Platform_linux_x64},
                  Compression : {CompressionGzip, <<108, 122, 52>>},
                  OpsVersion : {OpsVersionShort}] : DoCreate(opts)
  \* the bundle directory and the ops binary as they are, every compression,
  \* an output that does not exist, that exists, and that is the ops binary
  \/ \E opts \in [BundleDir : {BundleDirPath},
                  OpsBinary : {OpsBinaryPath},
                  OutputPath : {NewOutputPath, PlainPath, OpsBinaryPath},
                  \* "linux-x64", as in manifest.json, and "darwin-arm64"
                  Platform : {Platform_linux_x64,
                              <<100, 97, 114, 119, 105, 110, 45, 97, 114, 109, 54, 52>>},
                  Compression : {<<>>, CompressionGzip, CompressionZstd, <<108, 122, 52>>},
                  OpsVersion : {OpsVersionShort}] : DoCreate(opts)
  \* a container with a valid payload and checksum under each compression name
  \/ \E c \in {<<>>, CompressionGzip, CompressionZstd, <<108, 122, 52>>, <<90, 83, 84, 68>>} :
       \E tar \in {createCompressedTar(BundleFS, BundleDirPath, CompressionGzip)} :
          Plant([data |-> Container(OpsBinaryData,
                                    [NewHeader EXCEPT !.Compression = c,
                                                      !.BundleSize = tar.size,
                                                      !.BundleChecksum =
                                                         calculateChecksum(tar.data),
                                                      !.Manifest = <<ZeroManifest>>,
                                                      !.CreatedAt = FormatTime(0)],
                                    tar.data),
                 mode |-> 420])
  \/ \E path \in {NewOutputPath, PlainPath} : DoReadHeader(path)
  \/ \E path \in {NewOutputPath, PlainPath}, skipVerify \in BOOLEAN : DoExtract(path, skipVerify)
  \/ \E path \in {NewOutputPath, PlainPath} : DoDetect(path)
  \/ \E path \in {NewOutputPath, PlainPath} : DoVerify(path)
  \/ DoCreateCut(CreateOptions(NewOutputPath, <<>>, OpsVersionShort))
  \* the 3 bytes at the middle of the file replaced by their complement
  \/ \E at \in IF made = <<>> THEN {} ELSE {BLen(fs[made[1].out].data) \div 2} :
       Overwrite(at, [i \in 1..3 |-> 255 - ByteAt(fs[made[1].out].data, at + i - 1)])
  \* the 18 bytes before the footer replaced: by zeros, by their complement,
  \* by the first 18 bytes of the start marker, by the last 18 of it
  \/ \E bytes \in {[i \in 1..MagicEndLen |-> 0], [i \in 1..MagicEndLen |-> 255 - MagicEnd[i]],
                   SubSeq(MagicStart, 1, MagicEndLen),
                   SubSeq(MagicStart, MagicStartLen - MagicEndLen + 1, MagicStartLen)} :
       \E at \in IF made = <<>> THEN {}
                 ELSE {BLen(fs[made[1].out].data) - FooterSize - MagicEndLen} :
          Overwrite(at, bytes)

SpecCreate == InitCreate /\ [][NextCreate]_vars

\* C14 (preconditions of Create): when a precondition is violated, Create
\* fails in validation with the error that names it, the first violated one
\* in the order: BundleDir, OpsBinary, OutputPath, Platform empty; BundleDir
\* missing, not a directory; manifest.json, backend, convex.db,
\* credentials.json missing from BundleDir; OpsBinary missing, a directory;
\* Compression not "gzip", "zstd" or empty.  Create gets past validation only
\* when none is violated.
C14_Preconditions ==
  (last.op = "Create") =>
    LET o == last.res.opts
        absent == {i \in 1..4 : Under(o.BundleDir, requiredFiles[i]) \notin DOMAIN prev}
        first == CHOOSE i \in absent : \A j \in absent : i <= j
        violated ==
          IF o.BundleDir = <<>> THEN Err("bundle directory is required", <<>>)
          ELSE IF o.OpsBinary = <<>> THEN Err("ops binary is required", <<>>)
          ELSE IF o.OutputPath = <<>> THEN Err("output path is required", <<>>)
          ELSE IF o.Platform = <<>> THEN Err("platform is required", <<>>)
          ELSE IF o.BundleDir \notin DOMAIN prev
          THEN Err("bundle directory does not exist", <<o.BundleDir>>)
          ELSE IF prev[o.BundleDir].kind # "dir"
          THEN Err("bundle path is not a directory", <<o.BundleDir>>)
          ELSE IF absent # {}
          THEN Err("bundle is missing required file", <<requiredFiles[first]>>)
          ELSE IF o.OpsBinary \notin DOMAIN prev
          THEN Err("ops binary does not exist", <<o.OpsBinary>>)
          ELSE IF prev[o.OpsBinary].kind = "dir"
          THEN Err("ops binary path is a directory", <<o.OpsBinary>>)
          ELSE IF o.Compression \notin {CompressionGzip, CompressionZstd, <<>>}
          THEN Err("invalid compression", <<o.Compression>>)
          ELSE NoErr
    IN IF IsErr(violated)
       THEN last.err = Wrap("validation failed", violated) /\ fs = prev
       ELSE last.err.chain = <<>> \/ last.err.chain[1] # "validation failed"
            \/ last.err.chain[2] \in {"failed to access bundle directory",
                                      "failed to access ops binary"}

\* Create was called on a bundle directory that may not be searched and that
\* holds no manifest.json, and it got past validation
C14_Witness ==
  /\ last.op = "Create"
  /\ last.res.opts.BundleDir = BundleDirPath
  /\ prev[<<>>].mode # 0
  /\ ~May(prev, prev[BundleDirPath], "x")
  /\ Under(BundleDirPath, requiredFiles[1]) \notin DOMAIN prev
  /\ last.err = Err("failed to read manifest.json", <<>>)

\* C15 (a failed Create leaves the output alone): when Create returns an
\* error from input validation, from reading or parsing manifest.json, from
\* packing or from header validation, the file at OutputPath is as it was
\* before the call: absent if it was absent, with the same content and mode
\* if it was there.
C15_OutputUntouched ==
  (/\ last.op = "Create"
   /\ IsErr(last.err)
   /\ last.err.chain[1] \in {"validation failed", "failed to read manifest.json",
                             "failed to parse manifest.json",
                             "failed to create compressed archive", "invalid header"}) =>
    LET p == last.res.opts.OutputPath
    IN /\ (p \in DOMAIN fs) = (p \in DOMAIN prev)
       /\ p \in DOMAIN prev => fs[p] = prev[p]

\* Create has failed in header validation with an OutputPath that names a file
C15_Witness ==
  /\ last.op = "Create"
  /\ last.err.chain = <<"invalid header", "bundle size must be positive">>
  /\ last.res.opts.OutputPath = PlainPath
  /\ PlainPath \in DOMAIN prev
  /\ prev[PlainPath].data = PlainData

\* C16 (the host region): after a successful Create the first n bytes of the
\* output file are the n bytes the ops binary held when Create was called,
\* and the ops binary holds them still; also when OutputPath names the ops
\* binary itself.
C16_HostPreserved ==
  (last.op = "Create" /\ ~IsErr(last.err)) =>
    LET o == last.res.opts
        host == prev[o.OpsBinary].data
    IN /\ BLen(fs[o.OutputPath].data) >= BLen(host)
       /\ Sub(fs[o.OutputPath].data, 0, BLen(host)) = host
       \* the ops binary is as it was; when it is the output file, it has grown
       \* and only its first n bytes can be as they were
       /\ o.OutputPath # o.OpsBinary => fs[o.OpsBinary] = prev[o.OpsBinary]

\* Create has succeeded with OutputPath naming the ops binary, and the file
\* now starts with the start marker: the 4 bytes of the ops binary are gone
C16_Witness ==
  /\ last.op = "Create"
  /\ ~IsErr(last.err)
  /\ last.res.opts.OutputPath = last.res.opts.OpsBinary
  /\ prev[OpsBinaryPath].data = OpsBinaryData
  /\ Sub(fs[OpsBinaryPath].data, 0, MagicStartLen) = MagicStart

C18_BundleSize ==
  (last.op = "Create" /\ ~IsErr(last.err)) =>
    LET b == last.res.opts.BundleDir
        under == {q \in DOMAIN prev : Len(q) > Len(b) + 1 /\ SubSeq(q, 1, Len(b) + 1) = b \o Slash}
        regular == {q \in under : prev[q].kind = "file"}
        RECURSIVE Sum(_)
        Sum(S) == IF S = {} THEN 0
                  ELSE LET q == CHOOSE x \in S : TRUE
                       IN BLen(prev[q].data) + Sum(S \ {q})
        written == ReadHeaderFromExecutable(fs, last.res.opts.OutputPath)
        entries == TarRead(Gunzip(made[1].payload).data, 0, <<>>).entries
    IN /\ made[1].header.BundleSize = Sum(regular)
       /\ written.err = NoErr => written.header.BundleSize = Sum(regular)
       /\ Len(entries) = Cardinality(under)
       /\ {entries[i].Name : i \in 1..Len(entries)}
            = {SubSeq(q, Len(b) + 2, Len(q)) : q \in under}

\* Create has packed a tree with an empty directory, a directory of two
\* files, and links to a file and to a directory: the sizes of the six
\* regular files are counted, the files behind the links are not
C18_Witness ==
  /\ last.op = "Create" /\ ~IsErr(last.err)
  /\ Under(BundleDirPath, <<115>>) \in DOMAIN prev
  /\ prev[Under(BundleDirPath, <<108>>)].kind = "link"
  /\ prev[Under(BundleDirPath, <<100, 47, 102>>)].kind = "file"
  /\ made[1].header.BundleSize = BLen(ManifestJSON) + 2 + 1 + 1 + 3 + 5
  /\ ReadHeaderFromExecutable(fs, last.res.opts.OutputPath).header.BundleSize
       = made[1].header.BundleSize

\* C19 (the manifest is carried unmodified): for a container that Create has
\* made, the manifest in the header that ReadHeaderFromExecutable and Extract
\* return is the JSON object stored in the bundle's manifest.json: the same
\* fields with the same values, none added, none dropped.
C19_ManifestUnmodified ==
  (/\ last.op \in {"ReadHeader", "Extract"}
   /\ last.err = NoErr
   /\ made # <<>> /\ ~tampered
   /\ last.path = made[1].out) =>
    LET stored == JSONDecode(Open(fs, Under(made[1].opts.BundleDir,
                                             requiredFiles[1])).node.data).v
        Members(v) == {v.l[i] : i \in 1..Len(v.l)}
    IN /\ last.res.header.Manifest # <<>>
       /\ stored.t = "obj"
       /\ Members(ManifestValue(last.res.header.Manifest[1])) = Members(stored)

\* the manifest.json of the bundle holds the fields name and extra, and the
\* manifest read back from the container holds name, version, apps, platform
\* and createdAt
C19_Witness ==
  /\ last.op = "ReadHeader"
  /\ last.err = NoErr
  /\ made # <<>>
  /\ last.path = made[1].out
  /\ LET stored == JSONDecode(fs[Under(BundleDirPath, requiredFiles[1])].data).v
     IN /\ stored.t = "obj"
        /\ {stored.l[i].k : i \in 1..Len(stored.l)} = {Tag("name"), <<101, 120, 116, 114, 97>>}
        /\ last.res.header.Manifest[1] = [ZeroManifest EXCEPT !.Name = <<97>>]

\* C20 (platform check): CheckPlatformCompatibility(p) returns nil exactly
\* when p is the host token: linux-x64, linux-arm64, darwin-x64, darwin-arm64
\* on linux/amd64, linux/arm64, darwin/amd64, darwin/arm64, and "<os>-<arch>"
\* as it is on every other build.  Otherwise it returns a platform-mismatch
\* error that carries p and the host token.
C20_PlatformCheck ==
  (last.op = "CheckPlatform") =>
    LET linux == <<108, 105, 110, 117, 120>>
        darwin == <<100, 97, 114, 119, 105, 110>>
        amd64 == <<97, 109, 100, 54, 52>>
        arm64 == <<97, 114, 109, 54, 52>>
        x64 == <<120, 54, 52>>
        os == last.res.goos
        arch == last.res.goarch
        token == IF os \in {linux, darwin} /\ arch = amd64 THEN os \o <<45>> \o x64
                 ELSE os \o <<45>> \o arch
    IN IF last.res.p = token THEN last.err = NoErr
       ELSE last.err = [chain |-> <<"platform mismatch">>, args |-> <<last.res.p, token>>]

\* on linux/amd64 the token linux-x64 is accepted
C20_Witness ==
  /\ last.op = "CheckPlatform"
  /\ last.res.goos = <<108, 105, 110, 117, 120>>
  /\ last.res.goarch = <<97, 109, 100, 54, 52>>
  /\ last.res.p = Platform_linux_x64
  /\ last.err = NoErr

-----------------------------------------------------------------------------
(* Properties of two calls in a row, of the steps of Create, and of calls    *)
(* that run at the same time                                                 *)

\* a step of calls whose Extract deletes the executable once it is unpacked
StepRemoving(p) ==
  /\ made # <<>>
  /\ \/ last.op = "Create" /\ ~IsErr(last.err)
     \/ last.op = "Running" /\ last.res[p].pc # "done"
  /\ LET path == made[1].out
         calls == IF last.op = "Running" THEN last.res
                  ELSE [q \in {"Detect", "ReadHeader", "Verify", "ExtractA", "ExtractB"} |->
                          [pc |-> "start", r |-> <<>>]]
         cur == calls[p]
         outputDir == IF p = "ExtractB" THEN ExtractDir \o <<50>> ELSE ExtractDir
         data == Stat(fs, path).node.data
         Fail(e, panic) ==
           CASE p = "ReadHeader" -> [err |-> e, header |-> ZeroHeader]
             [] p = "Verify" -> [err |-> e, panic |-> panic, Valid |-> FALSE,
                                 ExpectedChecksum |-> <<>>, ActualChecksum |-> <<>>]
             [] OTHER -> [err |-> e, panic |-> panic, header |-> ZeroHeader]
         Done(r, f) == [st |-> [pc |-> "done", r |-> r], fs |-> f]
         result == DetectSelfHostModeFromFile(fs, path)
         Moves ==
           CASE cur.pc = "start" ->
                  IF p = "Detect" THEN Done(result, fs)
                  ELSE IF IsErr(result.err) THEN Done(Fail(result.err, FALSE), fs)
                  ELSE IF ~result.IsSelfHost
                  THEN Done(Fail(Err(IF p = "ReadHeader"
                                     THEN "file is not a self-host executable"
                                     ELSE "file does not contain an embedded bundle", <<>>),
                                 FALSE), fs)
                  ELSE [st |-> [pc |-> "detected", r |-> result], fs |-> fs]
             [] cur.pc = "detected" ->
                  Let(ReadHeader(data, cur.r.Offset + MagicStartLen), LAMBDA rh :
                  Let(BLen(data) - rh.pos - MagicEndLen - FooterSize,
                      LAMBDA compressedDataSize :
                  Let(ReadFull(data, rh.pos, compressedDataSize), LAMBDA compressedData :
                  Let(calculateChecksum(compressedData.data), LAMBDA sum :
                  IF p = "ReadHeader" THEN Done([err |-> rh.err, header |-> rh.header], fs)
                  ELSE IF IsErr(rh.err)
                  THEN Done(Fail(Wrap("failed to read header", rh.err), FALSE), fs)
                  ELSE IF compressedDataSize < 0 THEN Done(Fail(NoErr, TRUE), fs)
                  ELSE IF ~compressedData.ok
                  THEN Done(Fail(Err("failed to read compressed data", <<>>), FALSE), fs)
                  ELSE IF p = "Verify"
                  THEN Done([err |-> NoErr, panic |-> FALSE,
                             Valid |-> sum = rh.header.BundleChecksum,
                             ExpectedChecksum |-> rh.header.BundleChecksum,
                             ActualChecksum |-> sum], fs)
                  ELSE IF sum # rh.header.BundleChecksum
                  THEN Done(Fail(Err("checksum mismatch",
                                     <<rh.header.BundleChecksum, sum>>), FALSE), fs)
                  ELSE [st |-> [pc |-> "read",
                                r |-> [header |-> rh.header,
                                       compressedData |-> compressedData.data]],
                        fs |-> fs]))))
             [] cur.pc = "read" ->
                  Let(MkdirAll(fs, outputDir, 493), LAMBDA dir :
                  IF ~dir.ok
                  THEN Done(Fail(Err("failed to create output directory", <<>>), FALSE), dir.fs)
                  ELSE [st |-> [pc |-> "dir", r |-> cur.r], fs |-> dir.fs])
             [] cur.pc = "dir" ->
                  Let(extractCompressedTar(fs, cur.r.compressedData, outputDir,
                                           cur.r.header.Compression), LAMBDA x :
                  IF IsErr(x.err)
                  THEN Done(Fail(Wrap("failed to extract bundle", x.err), FALSE), x.fs)
                  ELSE Done([err |-> NoErr, panic |-> FALSE, header |-> cur.r.header],
                            Remove(x.fs, path)))
     IN \E after \in {Moves} :
          /\ fs' = after.fs
          /\ last' = [op |-> "Running", path |-> path, err |-> NoErr,
                      res |-> [calls EXCEPT ![p] = after.st]]
          /\ prev' = IF last.op = "Running" THEN prev ELSE fs
  /\ UNCHANGED <<clock, made, tampered>>

\* One step of one of five calls that run at the same time on the container
\* last created: DetectSelfHostModeFromFile, ReadHeaderFromExecutable, Verify
\* and two calls of Extract into directories of their own.  Each call opens
\* the file for itself, so a step reads the file as it is when the step is
\* taken: first the detection, then the header and the payload from the
\* offset detected, then (Extract) the output directory, then the entries.
\* While calls run, last.res holds for each call where it stands (pc) and
\* what it has read or returned (r), and prev the file system they started on.
Step(p) ==
  /\ made # <<>>
  /\ \/ last.op = "Create" /\ ~IsErr(last.err)
     \/ last.op = "Running" /\ last.res[p].pc # "done"
  /\ LET path == made[1].out
         calls == IF last.op = "Running" THEN last.res
                  ELSE [q \in {"Detect", "ReadHeader", "Verify", "ExtractA", "ExtractB"} |->
                          [pc |-> "start", r |-> <<>>]]
         cur == calls[p]
         outputDir == IF p = "ExtractB" THEN ExtractDir \o <<50>> ELSE ExtractDir
         data == Stat(fs, path).node.data
         Fail(e, panic) ==
           CASE p = "ReadHeader" -> [err |-> e, header |-> ZeroHeader]
             [] p = "Verify" -> [err |-> e, panic |-> panic, Valid |-> FALSE,
                                 ExpectedChecksum |-> <<>>, ActualChecksum |-> <<>>]
             [] OTHER -> [err |-> e, panic |-> panic, header |-> ZeroHeader]
         Done(r, f) == [st |-> [pc |-> "done", r |-> r], fs |-> f]
         result == DetectSelfHostModeFromFile(fs, path)
         Moves ==
           CASE cur.pc = "start" ->
                  IF p = "Detect" THEN Done(result, fs)
                  ELSE IF IsErr(result.err) THEN Done(Fail(result.err, FALSE), fs)
                  ELSE IF ~result.IsSelfHost
                  THEN Done(Fail(Err(IF p = "ReadHeader"
                                     THEN "file is not a self-host executable"
                                     ELSE "file does not contain an embedded bundle", <<>>),
                                 FALSE), fs)
                  ELSE [st |-> [pc |-> "detected", r |-> result], fs |-> fs]
             [] cur.pc = "detected" ->
                  Let(ReadHeader(data, cur.r.Offset + MagicStartLen), LAMBDA rh :
                  Let(BLen(data) - rh.pos - MagicEndLen - FooterSize,
                      LAMBDA compressedDataSize :
                  Let(ReadFull(data, rh.pos, compressedDataSize), LAMBDA compressedData :
                  Let(calculateChecksum(compressedData.data), LAMBDA sum :
                  IF p = "ReadHeader" THEN Done([err |-> rh.err, header |-> rh.header], fs)
                  ELSE IF IsErr(rh.err)
                  THEN Done(Fail(Wrap("failed to read header", rh.err), FALSE), fs)
                  ELSE IF compressedDataSize < 0 THEN Done(Fail(NoErr, TRUE), fs)
                  ELSE IF ~compressedData.ok
                  THEN Done(Fail(Err("failed to read compressed data", <<>>), FALSE), fs)
                  ELSE IF p = "Verify"
                  THEN Done([err |-> NoErr, panic |-> FALSE,
                             Valid |-> sum = rh.header.BundleChecksum,
                             ExpectedChecksum |-> rh.header.BundleChecksum,
                             ActualChecksum |-> sum], fs)
                  ELSE IF sum # rh.header.BundleChecksum
                  THEN Done(Fail(Err("checksum mismatch",
                                     <<rh.header.BundleChecksum, sum>>), FALSE), fs)
                  ELSE [st |-> [pc |-> "read",
                                r |-> [header |-> rh.header,
                                       compressedData |-> compressedData.data]],
                        fs |-> fs]))))
             [] cur.pc = "read" ->
                  Let(MkdirAll(fs, outputDir, 493), LAMBDA dir :
                  IF ~dir.ok
                  THEN Done(Fail(Err("failed to create output directory", <<>>), FALSE), dir.fs)
                  ELSE [st |-> [pc |-> "dir", r |-> cur.r], fs |-> dir.fs])
             [] cur.pc = "dir" ->
                  Let(extractCompressedTar(fs, cur.r.compressedData, outputDir,
                                           cur.r.header.Compression), LAMBDA x :
                  IF IsErr(x.err)
                  THEN Done(Fail(Wrap("failed to extract bundle", x.err), FALSE), x.fs)
                  ELSE Done([err |-> NoErr, panic |-> FALSE, header |-> cur.r.header], x.fs))
     IN \E after \in {Moves} :
          /\ fs' = after.fs
          /\ last' = [op |-> "Running", path |-> path, err |-> NoErr,
                      res |-> [calls EXCEPT ![p] = after.st]]
          /\ prev' = IF last.op = "Running" THEN prev ELSE fs
  /\ UNCHANGED <<clock, made, tampered>>

NextConc ==
  \/ DoCreate(CreateOptions(NewOutputPath, <<>>, OpsVersionShort))
  \/ \E p \in {"Detect", "ReadHeader", "Verify", "ExtractA", "ExtractB"} : Step(p)

SpecConc == Init /\ [][NextConc]_vars

\* C21 (Create twice): two successful calls of Create, one after the other,
\* at different times, with the same options, the same bytes in the ops
\* binary and the same tree under the bundle directory, build headers that
\* agree in every field but CreatedAt, and the same payload, byte for byte,
\* with the same BundleChecksum.
C21_SameInputsSamePayload ==
  [][(/\ last.op = "Create" /\ ~IsErr(last.err)
      /\ last'.op = "Create" /\ ~IsErr(last'.err)
      /\ last'.res.opts = last.res.opts
      /\ made'[1].host = made[1].host
      /\ \A q \in DOMAIN prev \cup DOMAIN fs :
           HasPrefix(q, last.res.opts.BundleDir) =>
             q \in DOMAIN prev /\ q \in DOMAIN fs /\ prev[q] = fs[q])
     => /\ [made'[1].header EXCEPT !.CreatedAt = <<>>]
             = [made[1].header EXCEPT !.CreatedAt = <<>>]
        /\ made'[1].header.BundleChecksum = made[1].header.BundleChecksum
        /\ made'[1].payload = made[1].payload
        /\ made'[1].header.BundleChecksum = calculateChecksum(made'[1].payload)]_vars

\* Create has succeeded a second time on the output of a first call with the
\* same options and the same ops binary, one tick later
C21_Witness ==
  /\ last.op = "Create" /\ ~IsErr(last.err)
  /\ last.path = NewOutputPath
  /\ last.path \in DOMAIN prev
  /\ LET first == ReadBundle(prev, last.path, "failed to read header")
     IN /\ first.err = NoErr
        /\ first.header.OpsVersion = made[1].header.OpsVersion
        /\ first.header.CreatedAt = FormatTime(1)
        /\ made[1].header.CreatedAt = FormatTime(2)
        /\ first.compressedData = made[1].payload
  /\ prev[OpsBinaryPath].data = made[1].host

\* C22 (running again): a second successful Create with the same options, ops
\* binary and bundle tree writes a file equal to the first one byte for byte;
\* and Detect, ReadHeaderFromExecutable and Verify, run again on a file that
\* has not changed, return what they returned.
C22_RerunIdentical ==
  [][/\ (/\ last.op = "Create" /\ ~IsErr(last.err)
         /\ last'.op = "Create" /\ ~IsErr(last'.err)
         /\ last'.res.opts = last.res.opts
         /\ made'[1].host = made[1].host
         /\ \A q \in DOMAIN prev \cup DOMAIN fs :
              HasPrefix(q, last.res.opts.BundleDir) =>
                q \in DOMAIN prev /\ q \in DOMAIN fs /\ prev[q] = fs[q])
        => fs'[made'[1].out].data = fs[made[1].out].data
     /\ last'.op = "Detect" =>
          fs' = fs /\ DetectSelfHostModeFromFile(fs', last'.path) = last'.res
     /\ last'.op = "ReadHeader" =>
          fs' = fs /\ ReadHeaderFromExecutable(fs', last'.path) = last'.res
     /\ last'.op = "Verify" =>
          fs' = fs /\ Verify(fs', last'.path) = last'.res]_vars

\* the second of two such calls of Create has written a file of the same
\* length as the first that differs from it, in the header's createdAt
C22_Witness ==
  /\ last.op = "Create" /\ ~IsErr(last.err)
  /\ last.path = NewOutputPath
  /\ last.path \in DOMAIN prev
  /\ prev[OpsBinaryPath].data = made[1].host
  /\ LET first == ReadBundle(prev, last.path, "failed to read header")
     IN /\ first.err = NoErr
        /\ first.header # made[1].header
        /\ [first.header EXCEPT !.CreatedAt = made[1].header.CreatedAt] = made[1].header
  /\ BLen(prev[last.path].data) = BLen(fs[last.path].data)
  /\ prev[last.path].data # fs[last.path].data

\* C23 (calls at the same time): however the steps of Detect,
\* ReadHeaderFromExecutable, Verify and two calls of Extract into different
\* directories interleave on a container that Create has finished, each call
\* returns what it returns when it runs alone on the file system they
\* started on, each Extract leaves in its directory the tree it leaves when
\* it runs alone, and the container file stays as it was.
C23_ConcurrentReads ==
  (last.op = "Running") =>
    /\ last.path \in DOMAIN fs /\ fs[last.path] = prev[last.path]
    /\ \A p \in DOMAIN last.res :
         last.res[p].pc = "done" =>
           LET r == last.res[p].r
               outputDir == IF p = "ExtractB" THEN ExtractDir \o <<50>> ELSE ExtractDir
               alone == Extract(prev, [ExecutablePath |-> last.path, OutputDir |-> outputDir,
                                       SkipVerify |-> FALSE])
               Tree(f) == {q \in DOMAIN f : q = outputDir \/ HasPrefix(q, outputDir \o Slash)}
           IN CASE p = "Detect" -> r = DetectSelfHostModeFromFile(prev, last.path)
                [] p = "ReadHeader" -> r = ReadHeaderFromExecutable(prev, last.path)
                [] p = "Verify" -> r = Verify(prev, last.path)
                [] OTHER -> /\ r = [err |-> alone.err, panic |-> alone.panic,
                                    header |-> alone.header]
                            /\ Tree(fs) = Tree(alone.fs)
                            /\ \A q \in Tree(fs) : fs[q] = alone.fs[q]

\* all five calls have returned without error, Verify with Valid, and both
\* output directories hold the bundle's manifest.json
C23_Witness ==
  /\ last.op = "Running"
  /\ \A p \in DOMAIN last.res : last.res[p].pc = "done" /\ last.res[p].r.err = NoErr
  /\ last.res["Detect"].r.IsSelfHost
  /\ last.res["Verify"].r.Valid
  /\ last.res["ExtractA"].r.header = made[1].header
  /\ fs[Under(ExtractDir, requiredFiles[1])].data = ManifestJSON
  /\ fs[Under(ExtractDir \o <<50>>, requiredFiles[1])].data = ManifestJSON

\* ---- A container changed after Create ----

C25_HeaderAlwaysValid ==
  (/\ last.op = "Create"
   /\ validateCreateInputs(prev, last.res.opts) = NoErr
   /\ LET m == Open(prev, Join(last.res.opts.BundleDir, requiredFiles[1]))
      IN m.ok /\ m.node.kind = "file" /\ ManifestFromJSON(m.node.data).ok
   /\ ~IsErr(createCompressedTar(prev, last.res.opts.BundleDir, CompressionGzip).err)
   /\ last.res.opts.Compression \in {<<>>, CompressionGzip}) =>
     /\ ~(IsErr(last.err) /\ last.err.chain[1] = "invalid header")
     /\ createCompressedTar(prev, last.res.opts.BundleDir, CompressionGzip).size > 0

\* Create has passed validation, parsed manifest.json through a link, packed
\* a tree whose regular files are all empty, and then rejected its own header
C25_Witness ==
  /\ last.op = "Create"
  /\ last.err = Wrap("invalid header", Err("bundle size must be positive", <<>>))
  /\ validateCreateInputs(prev, last.res.opts) = NoErr
  /\ Join(last.res.opts.BundleDir, requiredFiles[1]) \in DOMAIN prev
  /\ prev[Join(last.res.opts.BundleDir, requiredFiles[1])].kind = "link"
  /\ ManifestFromJSON(Open(prev, Join(last.res.opts.BundleDir,
                                      requiredFiles[1])).node.data).ok
  /\ createCompressedTar(prev, last.res.opts.BundleDir, CompressionGzip).size = 0
  /\ fs = prev

\* C26 (Verify and Extract are total on detected containers): on every file
\* for which DetectSelfHostModeFromFile returns IsSelfHost = true, Verify and
\* Extract return a result or an error value; when the header is read and
\* fileSize - payloadStart - 18 - 8 is negative, they return an error.
C26_TotalOnDetected ==
  (/\ last.op \in {"Verify", "Extract"}
   /\ ~IsErr(DetectSelfHostModeFromFile(prev, last.path).err)
   /\ DetectSelfHostModeFromFile(prev, last.path).IsSelfHost) =>
    LET data == Stat(prev, last.path).node.data
        rh == ReadHeader(data, DetectSelfHostModeFromFile(prev, last.path).Offset
                               + MagicStartLen)
    IN /\ ~last.res.panic
       /\ (~IsErr(rh.err) /\ BLen(data) - rh.pos - MagicEndLen - FooterSize < 0) =>
            IsErr(last.err)

\* Verify or Extract has run on a detected container whose header block ends
\* 25 bytes before the end of the file
C26_Witness ==
  /\ last.op \in {"Verify", "Extract"}
  /\ ~IsErr(DetectSelfHostModeFromFile(prev, last.path).err)
  /\ DetectSelfHostModeFromFile(prev, last.path).IsSelfHost
  /\ LET data == Stat(prev, last.path).node.data
         rh == ReadHeader(data, DetectSelfHostModeFromFile(prev, last.path).Offset
                                + MagicStartLen)
     IN ~IsErr(rh.err) /\ BLen(data) - rh.pos - MagicEndLen - FooterSize = -1
  /\ last.res.panic
  /\ fs = prev

\* C27 (Extract stays inside OutputDir): for every archive all of whose
\* entries pass the path check of extractCompressedTar (and lie, by name,
\* in the destination directory or below it), unpacking creates or changes
\* no file outside the destination directory, even when a symlink entry
\* points outside it and a later regular file is written through it.
C27_StaysInside ==
  (last.op = "Unpack" /\ last.res.from = "Forge") =>
    LET entries == TarRead(Gunzip(made[1].payload).data, 0, <<>>).entries
        Below(q) == q = DstDir \/ HasPrefix(q, DstDir \o Slash)
    IN (\A i \in 1..Len(entries) :
          /\ HasPrefix(Clean(Join(DstDir, entries[i].Name)), DstDir)
          /\ Below(Clean(Join(DstDir, entries[i].Name)))) =>
         \A q \in DOMAIN fs : (q \notin DOMAIN prev \/ fs[q] # prev[q]) => Below(q)

\* the entries l -> /t and l/x have been unpacked without error: the link is
\* in the destination directory and the file is at /t/x
C27_Witness ==
  /\ last.op = "Unpack" /\ last.res.from = "Forge"
  /\ ~IsErr(last.err)
  /\ Under(DstDir, <<108>>) \in DOMAIN fs
  /\ fs[Under(DstDir, <<108>>)].kind = "link"
  /\ fs[Under(DstDir, <<108>>)].target = TarRootPath
  /\ Under(TarRootPath, <<120>>) \notin DOMAIN prev
  /\ Under(TarRootPath, <<120>>) \in DOMAIN fs
  /\ fs[Under(TarRootPath, <<120>>)].data = <<7>>

\* C28 (the footer is the commit point of Create): when the ops binary is not
\* itself a container, the output file left by a Create that failed while
\* writing, whatever it had written by then, is not detected as a container.
C28_FooterCommits ==
  (/\ last.op = "Create"
   /\ IsErr(last.err)
   /\ last.err.chain[1] \in {"failed to copy ops binary", "failed to write start marker",
                             "failed to write header", "failed to write compressed bundle",
                             "failed to write end marker", "failed to write footer"}
   /\ ~DetectSelfHostModeFromFile(prev, last.res.opts.OpsBinary).IsSelfHost) =>
     ~DetectSelfHostModeFromFile(fs, last.res.opts.OutputPath).IsSelfHost

\* Create has failed while it copied an ops binary that is no container, and
\* detection on the output it left says IsSelfHost = true
C28_Witness ==
  /\ last.op = "Create"
  /\ last.err = Err("failed to copy ops binary", <<>>)
  /\ ~IsErr(DetectSelfHostModeFromFile(prev, last.res.opts.OpsBinary).err)
  /\ ~DetectSelfHostModeFromFile(prev, last.res.opts.OpsBinary).IsSelfHost
  /\ last.res.opts.OutputPath \notin DOMAIN prev
  /\ BLen(fs[last.res.opts.OutputPath].data) =
       BLen(prev[last.res.opts.OpsBinary].data) - 1
  /\ DetectSelfHostModeFromFile(fs, last.res.opts.OutputPath).IsSelfHost

\* C29 (the read path never looks at the end marker): on a container whose
\* 18 bytes before the footer have been replaced, and which is otherwise as
\* Create wrote it, DetectSelfHostModeFromFile, ReadHeaderFromExecutable,
\* Verify and Extract return what they return on the container as Create
\* wrote it: Verify says Valid = true, Extract unpacks the same tree.
C29_EndMarkerUnread ==
  (/\ last.op \in {"Detect", "ReadHeader", "Verify", "Extract"}
   /\ tampered /\ made # <<>> /\ last.path = made[1].out
   /\ LET orig == Container(made[1].host, made[1].header, made[1].payload)
          data == prev[last.path].data
          at == BLen(orig) - FooterSize - MagicEndLen
      IN /\ BLen(data) = BLen(orig)
         /\ Expand(Sub(data, at, MagicEndLen)) # MagicEnd
         /\ CatAll(<<Sub(data, 0, at), MagicEnd, Sub(data, at + MagicEndLen, FooterSize)>>)
              = orig) =>
    LET intact == [prev EXCEPT ![last.path].data =
                     Container(made[1].host, made[1].header, made[1].payload)]
        eopts == [ExecutablePath |-> last.path, OutputDir |-> ExtractDir,
                  SkipVerify |-> IF last.op = "Extract" THEN last.res.skipVerify ELSE FALSE]
    IN /\ last.op = "Detect" =>
            /\ last.res = DetectSelfHostModeFromFile(intact, last.path)
            /\ last.res.IsSelfHost
       /\ last.op = "ReadHeader" =>
            /\ last.res = ReadHeaderFromExecutable(intact, last.path)
            /\ last.res.header = made[1].header
       /\ last.op = "Verify" =>
            /\ last.res = Verify(intact, last.path)
            /\ last.res.Valid
       /\ last.op = "Extract" =>
            /\ last.err = Extract(intact, eopts).err
            /\ last.res.panic = Extract(intact, eopts).panic
            /\ last.res.header = Extract(intact, eopts).header
            /\ [fs EXCEPT ![last.path] = intact[last.path]] = Extract(intact, eopts).fs
            /\ fs[last.path] = prev[last.path]

\* Verify has found a container valid whose end marker was replaced by the
\* first 18 bytes of the start marker
C29_Witness ==
  /\ last.op = "Verify"
  /\ tampered /\ made # <<>> /\ last.path = made[1].out
  /\ LET data == fs[last.path].data
         at == BLen(data) - FooterSize - MagicEndLen
     IN /\ Expand(Sub(data, at, MagicEndLen)) = SubSeq(MagicStart, 1, MagicEndLen)
        /\ CatAll(<<Sub(data, 0, at), MagicEnd, Sub(data, at + MagicEndLen, FooterSize)>>)
             = Container(made[1].host, made[1].header, made[1].payload)
  /\ ~IsErr(last.err)
  /\ last.res.Valid
  /\ last.res.ActualChecksum = made[1].header.BundleChecksum

=============================================================================
